---------------------------- MODULE Spec2Model ----------------------------
(***************************************************************************)
(* A model of the monopole Boris-push integrator (MonopolePropagationBP),  *)
(* of ParticleState and of the candidate bookkeeping they act on.          *)
(*                                                                         *)
(* Numbers.  A C++ double is modelled as an extended rational <<n, d>>:    *)
(*   d > 0     the rational n/d in lowest terms,                           *)
(*   <<1,0>>   +infinity,   <<-1,0>>  -infinity,   <<0,0>>  NaN.           *)
(* Arithmetic and comparisons follow IEEE-754 on these values (NaN is      *)
(* absorbing and compares false, x/0 is an infinity or NaN); rounding and  *)
(* the sign of zero are not modelled.  sqrt and pow(., -0.2) are exact and *)
(* partial: the actions only draw inputs on which they are exact.          *)
(* Units: c_light = 1, eplus = 1, kilogram = ampere = meter = 1.           *)
(***************************************************************************)
EXTENDS Integers, Sequences, FiniteSets, TLC

(***************************************************************************)
(* Extended rationals                                                      *)
(***************************************************************************)
Abs(i) == IF i < 0 THEN -i ELSE i

Sgn(i) == IF i < 0 THEN -1 ELSE IF i > 0 THEN 1 ELSE 0

RECURSIVE GCD(_, _)
GCD(a, b) == IF b = 0 THEN a ELSE GCD(b, a % b)

Reduce(n, d, g) == <<n \div g, d \div g>>

\* the value n/d: lowest terms, d > 0; n/0 is an infinity or NaN
Rat(n, d) ==
    IF d = 0 THEN <<Sgn(n), 0>>
    ELSE IF d < 0 THEN Reduce(-n, -d, GCD(Abs(n), -d))
    ELSE Reduce(n, d, GCD(Abs(n), d))

NaN == <<0, 0>>

PInf == <<1, 0>>

NInf == <<-1, 0>>

Zero == <<0, 1>>

One == <<1, 1>>

IsNaN(a) == a = NaN

IsFinite(a) == a[2] # 0

RNeg(a) == <<-a[1], a[2]>>

\* a + b for finite a and b, over the least common denominator; g = gcd(a[2], b[2])
AddFinite(a, b, g) ==
    Rat(a[1] * (b[2] \div g) + b[1] * (a[2] \div g), a[2] * (b[2] \div g))

RAdd(a, b) ==
    IF IsNaN(a) \/ IsNaN(b) THEN NaN
    ELSE IF a[2] = 0 /\ b[2] = 0 THEN (IF a = b THEN a ELSE NaN)
    ELSE IF a[2] = 0 THEN a
    ELSE IF b[2] = 0 THEN b
    ELSE AddFinite(a, b, GCD(a[2], b[2]))

RSub(a, b) == RAdd(a, RNeg(b))

\* a * b for finite non-zero a and b, cancelling first;
\* g1 = gcd(|a[1]|, b[2]), g2 = gcd(|b[1]|, a[2])
MulFinite(a, b, g1, g2) ==
    <<(a[1] \div g1) * (b[1] \div g2), (a[2] \div g2) * (b[2] \div g1)>>

RMul(a, b) ==
    IF a[2] = 0 \/ b[2] = 0 \/ a[1] = 0 \/ b[1] = 0 THEN Rat(a[1] * b[1], a[2] * b[2])
    ELSE MulFinite(a, b, GCD(Abs(a[1]), b[2]), GCD(Abs(b[1]), a[2]))

RInv(b) ==
    IF IsNaN(b) THEN NaN
    ELSE IF b[2] = 0 THEN Zero
    ELSE IF b[1] = 0 THEN PInf
    ELSE Rat(b[2], b[1])

RDiv(a, b) == RMul(a, RInv(b))

\* a < b, false when either side is NaN
LtFinite(a, b, g) == a[1] * (b[2] \div g) < b[1] * (a[2] \div g)

RLt(a, b) ==
    /\ ~IsNaN(a)
    /\ ~IsNaN(b)
    /\ IF a[2] = 0 /\ b[2] = 0 THEN a[1] < b[1]
       ELSE IF a[2] = 0 \/ b[2] = 0 THEN a[1] * b[2] < b[1] * a[2]
       ELSE LtFinite(a, b, GCD(a[2], b[2]))

\* a == b, false when either side is NaN
REq(a, b) == ~IsNaN(a) /\ ~IsNaN(b) /\ a = b

RLe(a, b) == RLt(a, b) \/ REq(a, b)

RGt(a, b) == RLt(b, a)

\* std::max(a, b) is (a < b) ? b : a and std::min(a, b) is (b < a) ? b : a
StdMax(a, b) == IF RLt(a, b) THEN b ELSE a

StdMin(a, b) == IF RLt(b, a) THEN b ELSE a

RAbs(a) == <<Abs(a[1]), a[2]>>

\* integer k-th root by bisection: the largest x in lo..hi with x^k <= n
IPow(x, k) == IF k = 2 THEN x * x ELSE x * x * x * x * x

RECURSIVE IRoot(_, _, _, _)
IRoot(n, k, lo, hi) ==
    IF lo >= hi THEN lo
    ELSE LET mid == (lo + hi + 1) \div 2
         IN  IF IPow(mid, k) <= n THEN IRoot(n, k, mid, hi)
             ELSE IRoot(n, k, lo, mid - 1)

ISqrt(n) == IRoot(n, 2, 0, 46340)

IRoot5(n) == IRoot(n, 5, 0, 73)

IsPowerOf(n, x, k) == IPow(x, k) = n

IsSquare(n) == IsPowerOf(n, ISqrt(n), 2)

IsFifthPower(n) == IsPowerOf(n, IRoot5(n), 5)

\* sqrt is exact on a: on NaN, the infinities, negatives, and squares of rationals
SqrtExact(a) ==
    \/ a[2] = 0
    \/ a[1] < 0
    \/ IsSquare(a[1]) /\ IsSquare(a[2])

RSqrt(a) ==
    IF IsNaN(a) \/ a = NInf THEN NaN
    ELSE IF a = PInf THEN PInf
    ELSE IF a[1] < 0 THEN NaN
    ELSE <<ISqrt(a[1]), ISqrt(a[2])>>

\* pow(r, -0.2) is exact on r
PowExact(r) ==
    \/ r[2] = 0
    \/ r[1] <= 0
    \/ IsFifthPower(r[1]) /\ IsFifthPower(r[2])

\* pow(r, -0.2)
PowM02(r) ==
    IF IsNaN(r) THEN NaN
    ELSE IF r = PInf \/ r = NInf THEN Zero
    ELSE IF r[1] < 0 THEN NaN
    ELSE IF r[1] = 0 THEN PInf
    ELSE <<IRoot5(r[2]), IRoot5(r[1])>>

(***************************************************************************)
(* Vector3d                                                                *)
(***************************************************************************)
Vec(x, y, z) == <<x, y, z>>

VZero == Vec(Zero, Zero, Zero)

VNaN == Vec(NaN, NaN, NaN)

VAdd(a, b) == Vec(RAdd(a[1], b[1]), RAdd(a[2], b[2]), RAdd(a[3], b[3]))

VSub(a, b) == Vec(RSub(a[1], b[1]), RSub(a[2], b[2]), RSub(a[3], b[3]))

VScale(a, f) == Vec(RMul(a[1], f), RMul(a[2], f), RMul(a[3], f))

VDiv(a, f) == Vec(RDiv(a[1], f), RDiv(a[2], f), RDiv(a[3], f))

VCross(a, b) ==
    Vec(RSub(RMul(a[2], b[3]), RMul(a[3], b[2])),
        RSub(RMul(a[3], b[1]), RMul(a[1], b[3])),
        RSub(RMul(a[1], b[2]), RMul(a[2], b[1])))

VDot(a, b) == RAdd(RAdd(RMul(a[1], b[1]), RMul(a[2], b[2])), RMul(a[3], b[3]))

VR2(a) == VDot(a, a)

\* sqrt(x*x + 0 + 0) is |x|: exact without forming the square
OnAxis(a) == Cardinality({i \in 1..3 : a[i] # Zero}) <= 1

AxisR(a) ==
    IF a[1] # Zero THEN RAbs(a[1]) ELSE IF a[2] # Zero THEN RAbs(a[2]) ELSE RAbs(a[3])

\* getR is exact on a
GetRExact(a) == OnAxis(a) \/ SqrtExact(VR2(a))

\* Vector3::getR
GetR(a) == IF OnAxis(a) THEN AxisR(a) ELSE RSqrt(VR2(a))

\* Vector3::getUnitVector
GetUnitVector(a) == VDiv(a, GetR(a))

VFinite(a) == IsFinite(a[1]) /\ IsFinite(a[2]) /\ IsFinite(a[3])

(***************************************************************************)
(* Units and particle tables (model units)                                 *)
(***************************************************************************)
c_light == One

c_squared == RMul(c_light, c_light)

eplus == One

kilogram == One

ampere == One

meter == One

mass_electron == Rat(1, 2)

\* digit of the id at decimal place k (k = 0 is the last digit)
RECURSIVE Pow10(_)
Pow10(k) == IF k = 0 THEN 1 ELSE 10 * Pow10(k - 1)

Digit(id, k) == (Abs(id) \div Pow10(k)) % 10

\* crpropa::isNucleus: the neutron, and HepPID's 10LZZZAAAI codes
isNucleus(id) == id = 2112 \/ Abs(id) \div 100000000 = 10

\* HepPID::isDyon: codes 411xyz0 and 412xyz0 with a non-zero electric charge xyz
HepIsDyon(id) ==
    /\ Abs(id) < 10000000
    /\ Digit(id, 6) = 4
    /\ Digit(id, 5) = 1
    /\ Digit(id, 4) \in {1, 2}
    /\ Digit(id, 1) # 0
    /\ Digit(id, 0) = 0

\* chargeNumber(id) = HepPID::Z(id): digits ZZZ of a nucleus code
chargeNumber(id) == (Abs(id) \div 10000) % 1000

\* massNumber(id): digits AAA of a nucleus code
massNumber(id) == IF id = 2112 THEN 1 ELSE (Abs(id) \div 10) % 1000

\* nuclearMass(id): one mass unit per nucleon
nuclearMass(id) == Rat(massNumber(id), 1)

\* HepPID::charge(id) in units of eplus (for a dyon the sign of the id is not applied)
HepCharge(id) ==
    IF HepIsDyon(id)
    THEN LET q == 100 * Digit(id, 3) + 10 * Digit(id, 2) + Digit(id, 1)
             s == IF Digit(id, 4) = 2 THEN -1 ELSE 1
         IN  Rat(s * q, 1)
    ELSE IF Abs(id) = 11 THEN Rat(-Sgn(id), 1)
    ELSE Zero

(***************************************************************************)
(* ParticleState                                                           *)
(***************************************************************************)
\* the member initialisers of the constructor
ParticleZero ==
    [id |-> 0, energy |-> Zero, position |-> VZero, direction |-> VZero,
     pmass |-> Zero, charge |-> Zero, mcharge |-> Zero]

setPosition(p, pos) == [p EXCEPT !.position = pos]

setDirection(p, dir) == [p EXCEPT !.direction = VDiv(dir, GetR(dir))]

setEnergy(p, newEnergy) == [p EXCEPT !.energy = StdMax(Zero, newEnergy)]

setMass(p, new_pmass) == [p EXCEPT !.pmass = RMul(new_pmass, kilogram)]

setMcharge(p, new_mcharge) ==
    LET m == RAbs(RMul(RMul(new_mcharge, ampere), meter))
    IN  [p EXCEPT !.mcharge = IF p.id < 0 THEN RNeg(m) ELSE m]

setId(p, newId, new_pmass, new_mcharge) ==
    LET q == [p EXCEPT !.id = newId]
    IN  IF isNucleus(newId)
        THEN [q EXCEPT !.pmass = nuclearMass(newId),
                       !.charge = RMul(Rat(Sgn(newId) * chargeNumber(newId), 1), eplus)]
        ELSE IF HepIsDyon(newId)
        THEN LET d == setMcharge(setMass(q, new_pmass), new_mcharge)
                 c == RMul(HepCharge(newId), eplus)
             IN  [d EXCEPT !.charge = IF newId < 0 THEN RNeg(c) ELSE c]
        ELSE [q EXCEPT !.pmass = IF Abs(newId) = 11 THEN mass_electron ELSE q.pmass,
                       !.charge = RMul(HepCharge(newId), eplus)]

getLorentzFactor(p) == RAdd(One, RDiv(p.energy, RMul(p.pmass, c_squared)))

setLorentzFactor(p, lf) ==
    LET l == StdMax(Zero, lf)
    IN  [p EXCEPT !.energy = RMul(RMul(RSub(l, One), p.pmass), c_squared)]

\* exact: the square root getVelocity takes is exact
getVelocityArg(p) ==
    RSub(One, RDiv(RDiv(One, RAdd(One, RDiv(RDiv(p.energy, p.pmass), c_squared))),
                   RAdd(One, RDiv(RDiv(p.energy, p.pmass), c_squared))))

getVelocity(p) == VScale(VScale(p.direction, c_light), RSqrt(getVelocityArg(p)))

NewParticleState(id, E, pos, dir, pmass, mcharge) ==
    setDirection(setPosition(setEnergy(setId(ParticleZero, id, pmass, mcharge), E), pos), dir)

(***************************************************************************)
(* Candidate                                                               *)
(***************************************************************************)
NewCandidate(state, nextStep) ==
    [current |-> state, previous |-> state, currentStep |-> Zero,
     nextStep |-> nextStep, redshift |-> Zero, active |-> TRUE,
     secondaries |-> <<>>, stepRadiation |-> Zero]

setCurrentStep(cand, lstep) == [cand EXCEPT !.currentStep = lstep]

setNextStep(cand, step) == [cand EXCEPT !.nextStep = step]

limitNextStep(cand, step) == [cand EXCEPT !.nextStep = StdMin(cand.nextStep, step)]

\* clip(x, lower, upper) of Common.h
clip(x, lower, upper) == StdMax(lower, StdMin(x, upper))

(***************************************************************************)
(* MonopolePropagationBP                                                   *)
(***************************************************************************)
\* what the field sampler answers at one point: a vector, or a raised error
Sample(ok, B) == [ok |-> ok, B |-> B]

\* the integrator's members; fieldValid is field.valid()
Integrator(fieldValid, tolerance, minStep, maxStep) ==
    [fieldValid |-> fieldValid, tolerance |-> tolerance,
     minStep |-> minStep, maxStep |-> maxStep]

Y(x, u) == [x |-> x, u |-> u]

getFieldAtPosition(bp, s) == IF bp.fieldValid /\ s.ok THEN s.B ELSE VZero

\* s is the sampler's answer at the half-stepped position
dYSecondHalf(pos, dir, step) == Y(VAdd(pos, VDiv(VScale(dir, step), Rat(2, 1))), dir)

\* dY with a push that turns the direction about the field
dYAboutField(bp, pos, dir, step, g, m, s) ==
    dYSecondHalf(
        VAdd(pos, VDiv(VScale(dir, step), Rat(2, 1))),
        VAdd(dir, VDiv(VDiv(VScale(VScale(VCross(dir, getFieldAtPosition(bp, s)), g), step),
                            m),
                       c_squared)),
        step)

dY(bp, pos, dir, step, g, m, s) ==
    dYSecondHalf(
        \* half leap frog step in the position
        VAdd(pos, VDiv(VScale(dir, step), Rat(2, 1))),
        \* Boris push with the field at the half-stepped position
        VAdd(dir, VDiv(VDiv(VScale(VScale(getFieldAtPosition(bp, s), g), step), m),
                       c_squared)),
        step)

errorEstimation(x1, x2, step) ==
    RDiv(GetR(VSub(x1, x2)), RMul(step, RSub(One, Rat(1, 4))))

\* exact: the distance errorEstimation takes is exact
tryStepResult(out, outCompare, h) ==
    [out |-> out, error |-> errorEstimation(out.x, outCompare.x, h),
     exact |-> GetRExact(VSub(out.x, outCompare.x))]

tryStepSecondHalf(bp, outHelp, h, g, m, s3) ==
    dY(bp, outHelp.x, outHelp.u, RDiv(h, Rat(2, 1)), g, m, s3)

tryStep(bp, y, h, g, m, s1, s2, s3) ==
    tryStepResult(
        \* 1 step with h
        dY(bp, y.x, y.u, h, g, m, s1),
        \* 2 steps with h/2
        tryStepSecondHalf(bp, dY(bp, y.x, y.u, RDiv(h, Rat(2, 1)), g, m, s2), h, g, m, s3),
        h)

\* r = yErr.u.getR() / tolerance
errorRatio(error, tolerance) == RDiv(error, tolerance)

\* shrinkStep without line 100, the limit to minStep
shrinkStepNoFloor(bp, step, r) ==
    StdMax(RMul(RMul(step, Rat(95, 100)), PowM02(r)), RMul(Rat(1, 10), step))

\* shrinkStep without line 99, the limit to a tenth of the step
shrinkStepNoTenth(bp, step, r) ==
    StdMax(RMul(RMul(step, Rat(95, 100)), PowM02(r)), bp.minStep)

\* newStep after a rejected trial (r > 1, step above minStep)
shrinkStep(bp, step, r) ==
    StdMax(StdMax(RMul(RMul(step, Rat(95, 100)), PowM02(r)), RMul(Rat(1, 10), step)),
           bp.minStep)

\* growStep without line 107, the limit to maxStep
growStepNoCap(bp, step, r) ==
    StdMin(RMul(RMul(step, Rat(95, 100)), PowM02(r)), RMul(Rat(5, 1), step))

\* newStep after an accepted trial (r <= 1, step below maxStep)
growStep(bp, step, r) ==
    StdMin(StdMin(RMul(RMul(step, Rat(95, 100)), PowM02(r)), RMul(Rat(5, 1), step)),
           bp.maxStep)

\* setTolerance, setMinimumStep, setMaximumStep: Accepts is "does not throw"
setToleranceAccepts(bp, tol) == ~(RGt(tol, One) \/ RLt(tol, Zero))

setTolerance(bp, tol) == [bp EXCEPT !.tolerance = tol]

\* setMinimumStep without lines 173-174, the test min > maxStep
setMinimumStepAcceptsAboveMax(bp, min) == ~RLt(min, Zero)

setMinimumStepAccepts(bp, min) == ~RLt(min, Zero) /\ ~RGt(min, bp.maxStep)

setMinimumStep(bp, min) == [bp EXCEPT !.minStep = min]

setMaximumStepAccepts(bp, max) == ~RLt(max, bp.minStep)

setMaximumStep(bp, max) == [bp EXCEPT !.maxStep = max]

\* the constructors: minStep(0), then setField and the three setters in order;
\* tolerance and maxStep are written before they are read
UnbuiltIntegrator(fieldValid) == Integrator(fieldValid, NaN, Zero, NaN)

\* the fixed-step constructor without line 42, setMinimumStep(fixedStep)
FixedStepConstructorNoMin(fieldValid, fixedStep) ==
    LET b0 == UnbuiltIntegrator(fieldValid)
        b1 == setTolerance(b0, Rat(42, 100))
        b2 == setMaximumStep(b1, fixedStep)
    IN  [ok |-> /\ setToleranceAccepts(b0, Rat(42, 100))
                /\ setMaximumStepAccepts(b1, fixedStep),
         bp |-> b2]

FixedStepConstructor(fieldValid, fixedStep) ==
    LET b0 == UnbuiltIntegrator(fieldValid)
        b1 == setTolerance(b0, Rat(42, 100))
        b2 == setMaximumStep(b1, fixedStep)
        b3 == setMinimumStep(b2, fixedStep)
    IN  [ok |-> /\ setToleranceAccepts(b0, Rat(42, 100))
                /\ setMaximumStepAccepts(b1, fixedStep)
                /\ setMinimumStepAccepts(b2, fixedStep),
         bp |-> b3]

AdaptiveConstructor(fieldValid, tolerance, minStep, maxStep) ==
    LET b0 == UnbuiltIntegrator(fieldValid)
        b1 == setTolerance(b0, tolerance)
        b2 == setMaximumStep(b1, maxStep)
        b3 == setMinimumStep(b2, minStep)
    IN  [ok |-> /\ setToleranceAccepts(b0, tolerance)
                /\ setMaximumStepAccepts(b1, maxStep)
                /\ setMinimumStepAccepts(b2, minStep),
         bp |-> b3]

(***************************************************************************)
(* MonopolePropagationBP::process, in three steps: the entry up to the     *)
(* first trial (the whole call on the neutral path), one tryStep with the  *)
(* step-size decision that follows it, and the update after the loop.      *)
(* loc holds the locals of the call, obs what an observer of the call      *)
(* records (the candidate at entry, the samples taken, the trials made).   *)
(***************************************************************************)
LocIdle ==
    [pc |-> "idle", yIn |-> Y(VZero, VZero), yOut |-> Y(VZero, VZero),
     step |-> Zero, newStep |-> Zero, g |-> Zero, m |-> Zero]

ObsInit(cand) ==
    [entry |-> cand, samples |-> 0, failed |-> 0, trials |-> 0, calls |-> 0,
     pushes |-> 0, sets |-> 0, path |-> Zero, start |-> cand.current,
     how |-> "none", r |-> NaN, h |-> Zero, rejected |-> <<>>, last |-> "new",
     field |-> VZero]

Failed(bp, s) == IF bp.fieldValid /\ s.ok THEN 0 ELSE 1

\* process with line 69 reading step = maxStep
processEnterMaxStep(bp, cand, obs) ==
    LET current == cand.current
        c1      == [cand EXCEPT !.previous = current]
        yIn     == Y(current.position, current.direction)
        g       == current.mcharge
        o1      == [obs EXCEPT !.entry = cand, !.samples = 0, !.failed = 0,
                               !.trials = 0, !.how = "none", !.r = NaN,
                               !.h = Zero, !.rejected = <<>>, !.last = "enter",
                               !.field = VZero]
    IN  IF REq(g, Zero)
        THEN LET step == bp.maxStep
                 c2   == [c1 EXCEPT !.current =
                              setPosition(current, VAdd(yIn.x, VScale(yIn.u, step)))]
                 c3   == setNextStep(setCurrentStep(c2, step), bp.maxStep)
             IN  [cand |-> c3, loc |-> LocIdle,
                  obs |-> [o1 EXCEPT !.calls = @ + 1, !.path = RAdd(@, step),
                                     !.how = "neutral", !.h = step,
                                     !.last = "process"]]
        ELSE LET step == IF REq(bp.minStep, bp.maxStep) THEN bp.maxStep
                         ELSE clip(cand.nextStep, bp.minStep, bp.maxStep)
             IN  [cand |-> c1,
                  loc |-> [pc |-> "trial", yIn |-> yIn, yOut |-> yIn,
                           step |-> step, newStep |-> step, g |-> g,
                           m |-> RDiv(current.energy, RMul(c_light, c_light))],
                  obs |-> o1]

\* process with line 70 reading setPosition(yIn.u * step)
processEnterFromOrigin(bp, cand, obs) ==
    LET current == cand.current
        c1      == [cand EXCEPT !.previous = current]
        yIn     == Y(current.position, current.direction)
        g       == current.mcharge
        o1      == [obs EXCEPT !.entry = cand, !.samples = 0, !.failed = 0,
                               !.trials = 0, !.how = "none", !.r = NaN,
                               !.h = Zero, !.rejected = <<>>, !.last = "enter",
                               !.field = VZero]
    IN  IF REq(g, Zero)
        THEN LET step == clip(cand.nextStep, bp.minStep, bp.maxStep)
                 c2   == [c1 EXCEPT !.current =
                              setPosition(current, VScale(yIn.u, step))]
                 c3   == setNextStep(setCurrentStep(c2, step), bp.maxStep)
             IN  [cand |-> c3, loc |-> LocIdle,
                  obs |-> [o1 EXCEPT !.calls = @ + 1, !.path = RAdd(@, step),
                                     !.how = "neutral", !.h = step,
                                     !.last = "process"]]
        ELSE LET step == IF REq(bp.minStep, bp.maxStep) THEN bp.maxStep
                         ELSE clip(cand.nextStep, bp.minStep, bp.maxStep)
             IN  [cand |-> c1,
                  loc |-> [pc |-> "trial", yIn |-> yIn, yOut |-> yIn,
                           step |-> step, newStep |-> step, g |-> g,
                           m |-> RDiv(current.energy, RMul(c_light, c_light))],
                  obs |-> o1]

\* process without line 59, candidate->previous = current
processEnterNoPrevious(bp, cand, obs) ==
    LET current == cand.current
        c1      == cand
        yIn     == Y(current.position, current.direction)
        g       == current.mcharge
        o1      == [obs EXCEPT !.entry = cand, !.samples = 0, !.failed = 0,
                               !.trials = 0, !.how = "none", !.r = NaN,
                               !.h = Zero, !.rejected = <<>>, !.last = "enter",
                               !.field = VZero]
    IN  IF REq(g, Zero)
        THEN LET step == clip(cand.nextStep, bp.minStep, bp.maxStep)
                 c2   == [c1 EXCEPT !.current =
                              setPosition(current, VAdd(yIn.x, VScale(yIn.u, step)))]
                 c3   == setNextStep(setCurrentStep(c2, step), bp.maxStep)
             IN  [cand |-> c3, loc |-> LocIdle,
                  obs |-> [o1 EXCEPT !.calls = @ + 1, !.path = RAdd(@, step),
                                     !.how = "neutral", !.h = step,
                                     !.last = "process"]]
        ELSE LET step == IF REq(bp.minStep, bp.maxStep) THEN bp.maxStep
                         ELSE clip(cand.nextStep, bp.minStep, bp.maxStep)
             IN  [cand |-> c1,
                  loc |-> [pc |-> "trial", yIn |-> yIn, yOut |-> yIn,
                           step |-> step, newStep |-> step, g |-> g,
                           m |-> RDiv(current.energy, RMul(c_light, c_light))],
                  obs |-> o1]

\* process with line 65 reading step = candidate->getNextStep()
processEnterUnclipped(bp, cand, obs) ==
    LET current == cand.current
        c1      == [cand EXCEPT !.previous = current]
        yIn     == Y(current.position, current.direction)
        g       == current.mcharge
        o1      == [obs EXCEPT !.entry = cand, !.samples = 0, !.failed = 0,
                               !.trials = 0, !.how = "none", !.r = NaN,
                               !.h = Zero, !.rejected = <<>>, !.last = "enter",
                               !.field = VZero]
    IN  IF REq(g, Zero)
        THEN LET step == clip(cand.nextStep, bp.minStep, bp.maxStep)
                 c2   == [c1 EXCEPT !.current =
                              setPosition(current, VAdd(yIn.x, VScale(yIn.u, step)))]
                 c3   == setNextStep(setCurrentStep(c2, step), bp.maxStep)
             IN  [cand |-> c3, loc |-> LocIdle,
                  obs |-> [o1 EXCEPT !.calls = @ + 1, !.path = RAdd(@, step),
                                     !.how = "neutral", !.h = step,
                                     !.last = "process"]]
        ELSE LET step == IF REq(bp.minStep, bp.maxStep) THEN cand.nextStep
                         ELSE clip(cand.nextStep, bp.minStep, bp.maxStep)
             IN  [cand |-> c1,
                  loc |-> [pc |-> "trial", yIn |-> yIn, yOut |-> yIn,
                           step |-> step, newStep |-> step, g |-> g,
                           m |-> RDiv(current.energy, RMul(c_light, c_light))],
                  obs |-> o1]

processEnter(bp, cand, obs) ==
    LET current == cand.current
        c1      == [cand EXCEPT !.previous = current]
        yIn     == Y(current.position, current.direction)
        g       == current.mcharge
        o1      == [obs EXCEPT !.entry = cand, !.samples = 0, !.failed = 0,
                               !.trials = 0, !.how = "none", !.r = NaN,
                               !.h = Zero, !.rejected = <<>>, !.last = "enter",
                               !.field = VZero]
    IN  IF REq(g, Zero)
        THEN LET step == clip(cand.nextStep, bp.minStep, bp.maxStep)
                 c2   == [c1 EXCEPT !.current =
                              setPosition(current, VAdd(yIn.x, VScale(yIn.u, step)))]
                 c3   == setNextStep(setCurrentStep(c2, step), bp.maxStep)
             IN  [cand |-> c3, loc |-> LocIdle,
                  obs |-> [o1 EXCEPT !.calls = @ + 1, !.path = RAdd(@, step),
                                     !.how = "neutral", !.h = step,
                                     !.last = "process"]]
        ELSE LET step == IF REq(bp.minStep, bp.maxStep) THEN bp.maxStep
                         ELSE clip(cand.nextStep, bp.minStep, bp.maxStep)
             IN  [cand |-> c1,
                  loc |-> [pc |-> "trial", yIn |-> yIn, yOut |-> yIn,
                           step |-> step, newStep |-> step, g |-> g,
                           m |-> RDiv(current.energy, RMul(c_light, c_light))],
                  obs |-> o1]

\* the trial evaluates pow(r, -0.2)
trialUsesPow(bp, loc, r) ==
    /\ ~REq(bp.minStep, bp.maxStep)
    /\ IF RGt(r, One) THEN ~REq(loc.step, bp.minStep) ELSE ~REq(loc.step, bp.maxStep)

\* the decision after one tryStep; exact: sqrt and pow were exact on this trial
trialDecision(bp, loc, obs, t, r, failed) ==
    LET l1 == [loc EXCEPT !.yOut = t.out]
        o1 == [obs EXCEPT !.trials = @ + 1, !.samples = @ + 3,
                          !.failed = @ + failed, !.r = r, !.h = loc.step]
        ex == t.exact /\ (trialUsesPow(bp, loc, r) => PowExact(r))
    IN  IF REq(bp.minStep, bp.maxStep)
        THEN [loc |-> [l1 EXCEPT !.pc = "accept"], obs |-> [o1 EXCEPT !.how = "fixed"],
              exact |-> ex]
        ELSE IF RGt(r, One)
        THEN IF REq(loc.step, bp.minStep)
             THEN [loc |-> [l1 EXCEPT !.pc = "accept"],
                   obs |-> [o1 EXCEPT !.how = "minStep"], exact |-> ex]
             ELSE [loc |-> [l1 EXCEPT !.newStep = shrinkStep(bp, loc.step, r),
                                      !.step = shrinkStep(bp, loc.step, r)],
                   obs |-> [o1 EXCEPT !.rejected = Append(@, <<loc.step, r>>)],
                   exact |-> ex]
        ELSE [loc |-> [l1 EXCEPT !.pc = "accept",
                                 !.newStep = IF ~REq(loc.step, bp.maxStep)
                                             THEN growStep(bp, loc.step, r)
                                             ELSE loc.newStep],
              obs |-> [o1 EXCEPT !.how = "ratio"], exact |-> ex]

trialRatio(bp, loc, obs, t, failed) ==
    trialDecision(bp, loc, obs, t, errorRatio(t.error, bp.tolerance), failed)

processTrial(bp, loc, obs, s1, s2, s3) ==
    trialRatio(bp, loc, obs,
               tryStep(bp, loc.yIn, loc.step, loc.g, loc.m, s1, s2, s3),
               Failed(bp, s1) + Failed(bp, s2) + Failed(bp, s3))

\* acceptUpdate with the energy change of line 120 taken over the first trial
\* step of the call
acceptUpdateFirstTrialStep(bp, cand, loc, obs, s4, p2) ==
    LET B  == getFieldAtPosition(bp, s4)
        E  == p2.energy
        h1 == IF obs.rejected = <<>> THEN loc.step ELSE obs.rejected[1][1]
        dE == RMul(loc.g, VDot(B, VScale(p2.direction, h1)))
        p3 == setEnergy(p2, RAdd(E, dE))
        c1 == setNextStep(setCurrentStep([cand EXCEPT !.current = p3], loc.step), loc.newStep)
    IN  [cand |-> c1, loc |-> LocIdle,
         obs |-> [obs EXCEPT !.calls = @ + 1, !.pushes = @ + 1,
                             !.samples = @ + 1, !.failed = @ + Failed(bp, s4),
                             !.path = RAdd(@, loc.step), !.last = "process",
                             !.field = B],
         exact |-> GetRExact(loc.yOut.u) /\ GetRExact(GetUnitVector(loc.yOut.u))]

\* the update after the loop; exact: the norms taken are exact
acceptUpdate(bp, cand, loc, obs, s4, p2) ==
    LET B  == getFieldAtPosition(bp, s4)
        E  == p2.energy
        dE == RMul(loc.g, VDot(B, VScale(p2.direction, loc.step)))
        p3 == setEnergy(p2, RAdd(E, dE))
        c1 == setNextStep(setCurrentStep([cand EXCEPT !.current = p3], loc.step), loc.newStep)
    IN  [cand |-> c1, loc |-> LocIdle,
         obs |-> [obs EXCEPT !.calls = @ + 1, !.pushes = @ + 1,
                             !.samples = @ + 1, !.failed = @ + Failed(bp, s4),
                             !.path = RAdd(@, loc.step), !.last = "process",
                             !.field = B],
         exact |-> GetRExact(loc.yOut.u) /\ GetRExact(GetUnitVector(loc.yOut.u))]

processAccept(bp, cand, loc, obs, s4) ==
    acceptUpdate(bp, cand, loc, obs, s4,
                 setDirection(setPosition(cand.current, loc.yOut.x),
                              GetUnitVector(loc.yOut.u)))

(***************************************************************************)
(* The retry loop of process (lines 91-111) on steps in the subnormal      *)
(* range of double.  A subnormal double is a whole multiple of 2^-1074 and *)
(* a product that falls in the range is rounded to the nearest multiple    *)
(* (ties to even), so in this section a length is a whole number of that   *)
(* quantum.  tryStep is not computed: the ratio r = yErr.u.getR() /        *)
(* tolerance of a trial is an input drawn from ErrorRatios, and yOut is    *)
(* the straight step.                                                      *)
(***************************************************************************)
\* the largest step taken, in quanta
MaxQuanta == 4

\* n/d >= 0 rounded to the nearest whole number, ties to even
roundToQuantum(n, d) ==
    LET f == n \div d
        t == 2 * (n % d)
    IN  IF t < d THEN f
        ELSE IF t > d THEN f + 1
        ELSE IF f % 2 = 0 THEN f ELSE f + 1

\* the whole number of quanta of a step
Quanta(step) == step[1]

\* pow(r, -0.2) as a double, on the ratios of ErrorRatios: 2^-0.2 and 4^-0.2
\* to five places, which round as the doubles do on steps of a few quanta
powDouble(r) ==
    IF r = <<2, 1>> THEN <<87055, 100000>>
    ELSE IF r = <<4, 1>> THEN <<75786, 100000>>
    ELSE IF r = <<1, 1>> THEN <<1, 1>>
    ELSE IF r = <<0, 1>> THEN <<1, 0>>
    ELSE <<0, 1>>

\* step * 0.95: the double 0.95 lies just below 95/100, which decides the ties
timesDouble095(k) == roundToQuantum(9500 * k - (IF k > 0 THEN 1 ELSE 0), 10000)

\* 0.1 * step: the double 0.1 lies just above 1/10, which decides the ties
timesDouble01(k) == roundToQuantum(1000 * k + (IF k > 0 THEN 1 ELSE 0), 10000)

\* step * 0.95 * pow(r, -0.2), evaluated left to right
scaledStep(step, p) ==
    IF p[2] = 0 THEN p
    ELSE <<roundToQuantum(timesDouble095(Quanta(step)) * p[1], p[2]), 1>>

\* lines 98-100
shrinkSubnormal(bp, step, r) ==
    StdMax(StdMax(scaledStep(step, powDouble(r)), <<timesDouble01(Quanta(step)), 1>>),
           bp.minStep)

\* lines 105-107
growSubnormal(bp, step, r) ==
    StdMin(StdMin(scaledStep(step, powDouble(r)), <<5 * Quanta(step), 1>>), bp.maxStep)

\* lines 94-110 after a tryStep with error ratio r
retryDecision(bp, loc, obs, r) ==
    LET l1 == [loc EXCEPT !.yOut = Y(VAdd(loc.yIn.x, VScale(loc.yIn.u, loc.step)),
                                     loc.yIn.u)]
        o1 == [obs EXCEPT !.r = r, !.h = loc.step]
    IN  IF RGt(r, One)
        THEN IF REq(loc.step, bp.minStep)
             THEN [loc |-> [l1 EXCEPT !.pc = "accept"],
                   obs |-> [o1 EXCEPT !.how = "minStep"]]
             ELSE [loc |-> [l1 EXCEPT !.newStep = shrinkSubnormal(bp, loc.step, r),
                                      !.step = shrinkSubnormal(bp, loc.step, r)],
                   obs |-> o1]
        ELSE [loc |-> [l1 EXCEPT !.pc = "accept",
                                 !.newStep = IF ~REq(loc.step, bp.maxStep)
                                             THEN growSubnormal(bp, loc.step, r)
                                             ELSE loc.newStep],
              obs |-> [o1 EXCEPT !.how = "ratio"]]

(***************************************************************************)
(* Bounds and input sets                                                   *)
(***************************************************************************)
\* process calls per run
MaxCalls == 10

\* process calls per run that take the Boris push (magnetic charge not zero)
MaxPushes == 2

\* tryStep calls per process call
MaxTrials == 3

\* direct ParticleState setter calls per run
MaxSets == 2

\* process calls each of the two integrators of SpecEquiv is given
MaxEquivCalls == 2

Axis == Vec(One, Zero, Zero)

\* the vectors the field sampler answers with, and a raised error
FieldValues == {VScale(Axis, Rat(b, 1)) : b \in {0, 1}}

Samples == {Sample(TRUE, B) : B \in FieldValues} \cup {Sample(FALSE, VZero)}

Tolerances == {Zero, Rat(1, 6)}

\* a tolerance at which an error of 2 is the ratio 32, whose fifth root is exact
FineTolerances == {Rat(1, 16)}

StepRanges == {<<Zero, Rat(4, 1)>>, <<One, Rat(4, 1)>>}

FixedSteps == {One}

Integrators ==
    LET built ==
            {AdaptiveConstructor(fv, tol, sr[1], sr[2]) :
                 fv \in BOOLEAN, tol \in Tolerances, sr \in StepRanges}
            \cup {AdaptiveConstructor(TRUE, tol, Zero, Rat(4, 1)) :
                      tol \in FineTolerances}
            \cup {FixedStepConstructor(fv, h) : fv \in BOOLEAN, h \in FixedSteps}
    IN  {b.bp : b \in {c \in built : c.ok}}

\* id, energy, mass and magnetic charge handed to the ParticleState constructor
ParticleKinds ==
    {<<22, One, Zero, Zero>>,
     <<1000010010, One, Zero, Zero>>,
     <<4110010, One, One, One>>,
     <<4110010, Zero, One, One>>,
     <<-4110010, One, One, One>>}

Directions == {Axis, VScale(Axis, Rat(-2, 1))}

NextSteps == {Zero, One, Rat(8, 1)}

Particles ==
    {NewParticleState(k[1], k[2], VZero, d, k[3], k[4]) :
         k \in ParticleKinds, d \in Directions}

(***************************************************************************)
(* State                                                                   *)
(*   bp         the integrator's members                                   *)
(*   candidate  the candidate the calls act on                             *)
(*   loc, obs   the locals of the running process call and its observer    *)
(*   twin       a second integrator with a candidate of its own, as a      *)
(*              record of the four above (used by SpecEquiv only)          *)
(*   setup      the last constructor or setter call on the integrator      *)
(*   es         the locals and inputs of an ElasticScattering::process call*)
(*   mr         a MonopoleRadiation module and its last process call       *)
(*   em         an EMCascade module shared by the workers that call it      *)
(*   pl         the module pipeline running its chain on the candidate      *)
(***************************************************************************)
VARIABLES bp, candidate, loc, obs, twin, setup, es, mr, em, pl, maps

vars == <<bp, candidate, loc, obs, twin, setup, es, mr, em, pl, maps>>

\* the variables of the other modules, which process does not touch
moduleVars == <<setup, es, mr, em, pl, maps>>

\* the record of a constructor or setter call: its argument, whether it
\* threw, and the integrator before it
SetupCall(call, arg, threw, before, calls) ==
    [call |-> call, arg |-> arg, threw |-> threw, before |-> before, calls |-> calls]

NoSetup == SetupCall("none", NaN, FALSE, UnbuiltIntegrator(FALSE), 0)

\* ElasticScattering: lg is log10(getLorentzFactor() * (1 + z)) of the
\* candidate and tab the rate the table interpolates to at lg; step is the
\* remaining step, draws the free paths drawn, row the last row of tabCDF read
Scatter(pc, lg, tab) ==
    [pc |-> pc, lg |-> lg, tab |-> tab, step |-> Zero, draws |-> <<>>, row |-> -1,
     inside |-> FALSE, calls |-> 0, entry |-> NewCandidate(ParticleZero, Zero)]

NoScatter == Scatter("idle", NaN, Zero)

\* MonopoleRadiation: the members of the module, and of its last process
\* call the candidate at entry, the energy loss dE, the photons it enqueued
\* and whether getField threw
Radiation(mod) ==
    [mod |-> mod, entry |-> NewCandidate(ParticleZero, Zero), dE |-> Zero,
     photons |-> <<>>, threw |-> FALSE, calls |-> 0]

\* the constructors: both take thinning and neither stores it, so the member
\* keeps the indeterminate value any; the Brms constructor leaves field null
MonopoleRadiationConstructor(valid, Brms, havePhotons, thinning, nSamples, limit, any) ==
    [valid |-> valid, Brms |-> Brms, havePhotons |-> havePhotons,
     thinning |-> any, limit |-> limit,
     secondaryThreshold |-> One, maximumSamples |-> nSamples]

NoRadiation ==
    Radiation(MonopoleRadiationConstructor(FALSE, Zero, FALSE, Zero, 0, Zero, Zero))

\* EMCascade before any worker has called it
NoCascade == [calls |-> 0]

\* the pipeline: the chain of modules, the state of the candidate, the
\* iteration, the position in the chain of the module to run next, the
\* number of module runs and of records PhotonEleCa has written
Pipeline(chain) ==
    [chain |-> chain, state |-> "Pending", iteration |-> 0, next |-> 1, runs |-> 0,
     written |-> 0]

NoPipeline == Pipeline(<<>>)

\* calls on the EmissionMap per run
MaxMapCalls == 4

\* the EmissionMap's nPhi and nTheta
MapNPhi == 2

MapNTheta == 2

\* CylindricalProjectionMap(nPhi, nTheta): pdf and cdf of nPhi * nTheta zeros
\* (element k of the vectors is kept at k + 1), dirty false
CylindricalProjectionMap(nPhi, nTheta) ==
    [nPhi |-> nPhi, nTheta |-> nTheta, pdf |-> [k \in 1..(nPhi * nTheta) |-> 0],
     cdf |-> [k \in 1..(nPhi * nTheta) |-> 0], dirty |-> FALSE]

\* the EmissionMap's map of one key (pid, energy bin): whether there is one,
\* the map, the last call and the bin it computed, the number of calls, the
\* number of writes that landed outside the pdf vector, and whether an access
\* outside the vector stopped the program
Maps(has, cpm) ==
    [has |-> has, cpm |-> cpm, last |-> "none", iPhi |-> 0, iTheta |-> 0, bin |-> 0,
     ops |-> 0, outside |-> 0, crashed |-> FALSE]

NoMaps == Maps(FALSE, CylindricalProjectionMap(MapNPhi, MapNTheta))

ModulesIdle ==
    /\ setup = NoSetup
    /\ es = NoScatter
    /\ mr = NoRadiation
    /\ em = NoCascade
    /\ pl = NoPipeline
    /\ maps = NoMaps

Run(b, c, l, o) == [bp |-> b, candidate |-> c, loc |-> l, obs |-> o]

NoTwin == Run(UnbuiltIntegrator(FALSE), NewCandidate(ParticleZero, Zero), LocIdle,
              ObsInit(NewCandidate(ParticleZero, Zero)))

Init ==
    /\ bp \in Integrators
    /\ \E p \in Particles, n \in NextSteps : candidate = NewCandidate(p, n)
    /\ loc = LocIdle
    /\ obs = ObsInit(candidate)
    /\ twin = NoTwin
    /\ ModulesIdle

\* process, lines 57-88 (and the whole call for a particle without magnetic charge)
Enter ==
    /\ loc.pc = "idle"
    /\ obs.calls < MaxCalls
    /\ REq(candidate.current.mcharge, Zero) \/ obs.pushes < MaxPushes
    /\ \E n \in {processEnter(bp, candidate, obs)} :
           /\ candidate' = n.cand
           /\ loc' = n.loc
           /\ obs' = n.obs
    /\ UNCHANGED <<bp, twin>>
    /\ UNCHANGED moduleVars

\* process, one tryStep and the decision that follows it
Trial ==
    /\ loc.pc = "trial"
    /\ obs.trials < MaxTrials
    /\ \E s1 \in Samples, s2 \in Samples, s3 \in Samples :
           \E n \in {processTrial(bp, loc, obs, s1, s2, s3)} :
               /\ n.exact
               /\ loc' = n.loc
               /\ obs' = n.obs
    /\ UNCHANGED <<bp, candidate, twin>>
    /\ UNCHANGED moduleVars

\* process, lines 114-123
Accept ==
    /\ loc.pc = "accept"
    /\ \E s4 \in Samples :
           \E n \in {processAccept(bp, candidate, loc, obs, s4)} :
               /\ n.exact
               /\ candidate' = n.cand
               /\ loc' = n.loc
               /\ obs' = n.obs
    /\ UNCHANGED <<bp, twin>>
    /\ UNCHANGED moduleVars

Next == Enter \/ Trial \/ Accept

Spec == Init /\ [][Next]_vars

\* the state right after a process call has returned
AfterProcess == loc.pc = "idle" /\ obs.last = "process"

(***************************************************************************)
(* The ParticleState setters called on the candidate's current state       *)
(***************************************************************************)
Energies == {Rat(-1, 1), Zero, Rat(2, 1)}

LorentzFactors == {Zero, Rat(1, 2), One, Rat(3, 1)}

NewDirections == {VZero, Vec(Zero, Rat(3, 1), Zero), Vec(Rat(3, 1), Zero, Rat(4, 1))}

SetCall(name) == [obs EXCEPT !.sets = @ + 1, !.last = name]

SetEnergy ==
    /\ loc.pc = "idle"
    /\ obs.sets < MaxSets
    /\ \E e \in Energies :
           candidate' = [candidate EXCEPT !.current = setEnergy(@, e)]
    /\ obs' = SetCall("setEnergy")
    /\ UNCHANGED <<bp, loc, twin>>
    /\ UNCHANGED moduleVars

SetLorentzFactor ==
    /\ loc.pc = "idle"
    /\ obs.sets < MaxSets
    /\ \E lf \in LorentzFactors :
           candidate' = [candidate EXCEPT !.current = setLorentzFactor(@, lf)]
    /\ obs' = SetCall("setLorentzFactor")
    /\ UNCHANGED <<bp, loc, twin>>
    /\ UNCHANGED moduleVars

SetDirection ==
    /\ loc.pc = "idle"
    /\ obs.sets < MaxSets
    /\ \E d \in NewDirections :
           /\ GetRExact(d)
           /\ candidate' = [candidate EXCEPT !.current = setDirection(@, d)]
    /\ obs' = SetCall("setDirection")
    /\ UNCHANGED <<bp, loc, twin>>
    /\ UNCHANGED moduleVars

NextState == SetEnergy \/ SetLorentzFactor \/ SetDirection

SpecState == Init /\ [][NextState]_vars

(***************************************************************************)
(* ParticleState::setId on a state that already has an id                  *)
(***************************************************************************)
NewIds == {22, 11, -11, 2112, 1000010010, 4110010, -4110010}

NewMasses == {One, Rat(2, 1)}

NewMcharges == {One, Rat(-2, 1)}

InitId ==
    /\ bp \in {FixedStepConstructor(TRUE, One).bp}
    /\ \E k \in ParticleKinds :
           candidate = NewCandidate(NewParticleState(k[1], k[2], VZero, Axis, k[3], k[4]), One)
    /\ loc = LocIdle
    /\ obs = ObsInit(candidate)
    /\ twin = NoTwin
    /\ ModulesIdle

SetId ==
    /\ loc.pc = "idle"
    /\ obs.sets < MaxSets
    /\ \E id \in NewIds, pmass \in NewMasses, mcharge \in NewMcharges :
           candidate' = [candidate EXCEPT !.current = setId(@, id, pmass, mcharge)]
    /\ obs' = SetCall("setId")
    /\ UNCHANGED <<bp, loc, twin>>
    /\ UNCHANGED moduleVars

NextId == SetId

SpecId == InitId /\ [][NextId]_vars

(***************************************************************************)
(* process on a magnetic charge in the uniform field (0, 0, B0), between   *)
(* calls of Candidate::limitNextStep by the other modules                  *)
(***************************************************************************)
MaxGyrationSteps == 2

\* the largest numerator and denominator of the mass and of the push
\* g B step / (m c^2) the arithmetic is carried out on
MaxMagnitude == 1000

Plain(a) == Abs(a[1]) <= MaxMagnitude /\ a[2] <= MaxMagnitude

\* B0
UniformStrength == One

UniformField == Sample(TRUE, Vec(Zero, Zero, UniformStrength))

\* step lengths on which the norms of the pushed directions are exact
GyrationSteps == {Zero, Rat(3, 4), Rat(4, 3), Rat(24, 7), Rat(12767, 4200)}

GyrationKinds == {4110010, -4110010}

GyrationIntegrators ==
    {AdaptiveConstructor(TRUE, Rat(1, 6), Zero, Rat(4, 1)).bp,
     FixedStepConstructor(TRUE, Rat(3, 4)).bp}

InitGyration ==
    /\ bp \in GyrationIntegrators
    /\ \E id \in GyrationKinds, n \in GyrationSteps :
           candidate = NewCandidate(NewParticleState(id, One, VZero, Axis, One, One), n)
    /\ loc = LocIdle
    /\ obs = ObsInit(candidate)
    /\ twin = NoTwin
    /\ ModulesIdle

GyrationEnter ==
    /\ loc.pc = "idle"
    /\ obs.pushes < MaxGyrationSteps
    /\ \E n \in {processEnter(bp, candidate, obs)} :
           /\ candidate' = n.cand
           /\ loc' = n.loc
           /\ obs' = n.obs
    /\ UNCHANGED <<bp, twin>>
    /\ UNCHANGED moduleVars

GyrationTrial ==
    /\ loc.pc = "trial"
    /\ obs.trials < MaxTrials
    /\ Plain(loc.m)
    /\ Plain(RDiv(RDiv(RMul(RMul(loc.g, UniformStrength), loc.step), loc.m), c_squared))
    /\ \E n \in {processTrial(bp, loc, obs, UniformField, UniformField, UniformField)} :
           /\ n.exact
           /\ loc' = n.loc
           /\ obs' = n.obs
    /\ UNCHANGED <<bp, candidate, twin>>
    /\ UNCHANGED moduleVars

GyrationAccept ==
    /\ loc.pc = "accept"
    /\ \E n \in {processAccept(bp, candidate, loc, obs, UniformField)} :
           /\ n.exact
           /\ candidate' = n.cand
           /\ loc' = n.loc
           /\ obs' = n.obs
    /\ UNCHANGED <<bp, twin>>
    /\ UNCHANGED moduleVars

\* another module of the chain limits the next step
LimitNextStep ==
    /\ loc.pc = "idle"
    /\ obs.last = "process"
    /\ \E h \in GyrationSteps : candidate' = limitNextStep(candidate, h)
    /\ obs' = [obs EXCEPT !.last = "limitNextStep"]
    /\ UNCHANGED <<bp, loc, twin>>
    /\ UNCHANGED moduleVars

NextGyration == GyrationEnter \/ GyrationTrial \/ GyrationAccept \/ LimitNextStep

SpecGyration == InitGyration /\ [][NextGyration]_vars

(***************************************************************************)
(* Two integrators with minStep = maxStep = h, one from each constructor,  *)
(* each with a candidate of its own; both are given the same calls and the *)
(* same field, which is uniform over one step.                             *)
(***************************************************************************)
EquivSteps == {One, Rat(2, 1)}

EquivParticles == {p \in Particles : p.id \in {22, 4110010}}

InitEquiv ==
    /\ \E fv \in BOOLEAN, h \in EquivSteps, tol \in Tolerances :
           /\ FixedStepConstructor(fv, h).ok
           /\ AdaptiveConstructor(fv, tol, h, h).ok
           /\ bp = FixedStepConstructor(fv, h).bp
           /\ \E p \in EquivParticles, n \in NextSteps :
                  candidate = NewCandidate(p, n)
           /\ twin = Run(AdaptiveConstructor(fv, tol, h, h).bp, candidate, LocIdle,
                         ObsInit(candidate))
    /\ loc = LocIdle
    /\ obs = ObsInit(candidate)
    /\ ModulesIdle

EquivEnter ==
    /\ loc.pc = "idle"
    /\ twin.loc.pc = "idle"
    /\ obs.calls < MaxEquivCalls
    /\ \E n \in {processEnter(bp, candidate, obs)} :
           /\ candidate' = n.cand
           /\ loc' = n.loc
           /\ obs' = n.obs
    /\ \E n \in {processEnter(twin.bp, twin.candidate, twin.obs)} :
           twin' = Run(twin.bp, n.cand, n.loc, n.obs)
    /\ UNCHANGED bp
    /\ UNCHANGED moduleVars

\* one tryStep of each integrator that is in its loop
EquivTrial ==
    /\ loc.pc = "trial" \/ twin.loc.pc = "trial"
    /\ obs.trials < MaxTrials
    /\ twin.obs.trials < MaxTrials
    /\ \E s \in Samples :
           /\ IF loc.pc = "trial"
              THEN \E n \in {processTrial(bp, loc, obs, s, s, s)} :
                       /\ n.exact
                       /\ loc' = n.loc
                       /\ obs' = n.obs
              ELSE UNCHANGED <<loc, obs>>
           /\ IF twin.loc.pc = "trial"
              THEN \E n \in {processTrial(twin.bp, twin.loc, twin.obs, s, s, s)} :
                       /\ n.exact
                       /\ twin' = Run(twin.bp, twin.candidate, n.loc, n.obs)
              ELSE UNCHANGED twin
    /\ UNCHANGED <<bp, candidate>>
    /\ UNCHANGED moduleVars

EquivAccept ==
    /\ loc.pc = "accept"
    /\ twin.loc.pc = "accept"
    /\ \E s4 \in Samples :
           /\ \E n \in {processAccept(bp, candidate, loc, obs, s4)} :
                  /\ n.exact
                  /\ candidate' = n.cand
                  /\ loc' = n.loc
                  /\ obs' = n.obs
           /\ \E n \in {processAccept(twin.bp, twin.candidate, twin.loc, twin.obs, s4)} :
                  /\ n.exact
                  /\ twin' = Run(twin.bp, n.cand, n.loc, n.obs)
    /\ UNCHANGED bp
    /\ UNCHANGED moduleVars

NextEquiv == EquivEnter \/ EquivTrial \/ EquivAccept

SpecEquiv == InitEquiv /\ [][NextEquiv]_vars

(***************************************************************************)
(* Configuring the integrator: a constructor call, then setter calls.  A   *)
(* call that throws leaves the members as they were; a constructor that    *)
(* throws leaves no integrator to call.                                    *)
(***************************************************************************)
\* setter calls per run
MaxSetupCalls == 2

ToleranceArgs == {Rat(-1, 2), Zero, Rat(1, 6), One, Rat(3, 2)}

StepArgs == {Rat(-1, 1), Zero, One, Rat(4, 1), PInf}

Constructed(c, call, arg) ==
    /\ bp = (IF c.ok THEN c.bp ELSE UnbuiltIntegrator(FALSE))
    /\ setup = SetupCall(call, arg, ~c.ok, UnbuiltIntegrator(FALSE), 0)

InitConfig ==
    /\ \/ \E h \in StepArgs :
              Constructed(FixedStepConstructor(TRUE, h), "fixed", Rat(42, 100))
       \/ \E tol \in ToleranceArgs, min \in StepArgs, max \in StepArgs :
              Constructed(AdaptiveConstructor(TRUE, tol, min, max), "adaptive", tol)
    /\ candidate = NewCandidate(ParticleZero, Zero)
    /\ loc = LocIdle
    /\ obs = ObsInit(candidate)
    /\ twin = NoTwin
    /\ es = NoScatter
    /\ mr = NoRadiation
    /\ em = NoCascade
    /\ pl = NoPipeline
    /\ maps = NoMaps

Built == ~(setup.call \in {"fixed", "adaptive"} /\ setup.threw)

SetupGuard == Built /\ setup.calls < MaxSetupCalls

SetTolerance ==
    /\ SetupGuard
    /\ \E tol \in ToleranceArgs :
           /\ bp' = (IF setToleranceAccepts(bp, tol) THEN setTolerance(bp, tol) ELSE bp)
           /\ setup' = SetupCall("setTolerance", tol, ~setToleranceAccepts(bp, tol), bp,
                                 setup.calls + 1)
    /\ UNCHANGED <<candidate, loc, obs, twin, maps, es, mr, em, pl>>

SetMinimumStep ==
    /\ SetupGuard
    /\ \E min \in StepArgs :
           /\ bp' = (IF setMinimumStepAccepts(bp, min) THEN setMinimumStep(bp, min) ELSE bp)
           /\ setup' = SetupCall("setMinimumStep", min, ~setMinimumStepAccepts(bp, min), bp,
                                 setup.calls + 1)
    /\ UNCHANGED <<candidate, loc, obs, twin, maps, es, mr, em, pl>>

SetMaximumStep ==
    /\ SetupGuard
    /\ \E max \in StepArgs :
           /\ bp' = (IF setMaximumStepAccepts(bp, max) THEN setMaximumStep(bp, max) ELSE bp)
           /\ setup' = SetupCall("setMaximumStep", max, ~setMaximumStepAccepts(bp, max), bp,
                                 setup.calls + 1)
    /\ UNCHANGED <<candidate, loc, obs, twin, maps, es, mr, em, pl>>

NextConfig == SetTolerance \/ SetMinimumStep \/ SetMaximumStep

SpecConfig == InitConfig /\ [][NextConfig]_vars

(***************************************************************************)
(* ElasticScattering::process, in two steps: the checks before the loop,   *)
(* and one turn of the loop with its random draws.  The photon energy of a *)
(* secondary (a power of ten of the drawn bin) is not modelled; the tables *)
(* have nlg rows.                                                          *)
(***************************************************************************)
lgmin == 6

lgmax == 14

nlg == 201

\* free paths drawn per process call
MaxDraws == 3

\* ElasticScattering::process calls per run
MaxScatterCalls == 2

Floor(a) == a[1] \div a[2]

\* PhotonField::getRedshiftScaling, of a field that does not evolve
getRedshiftScaling(z) == One

\* Candidate::addSecondary(id, energy, position, weight, tag), without the energy
addSecondary(cand, id, pos, w, row) ==
    [cand EXCEPT !.secondaries =
        Append(@, [id |-> id, position |-> pos, weight |-> w, row |-> row])]

\* Random::randomInterpolatedPosition(a, b), t being the number drawn
randomInterpolatedPosition(a, b, t) == VAdd(a, VScale(VSub(b, a), t))

\* lines 93-102: the tabulated rate with the TRK and the cosmological scaling
elasticRate(tab, id, z) ==
    RMul(RMul(tab, RDiv(Rat(chargeNumber(id) * (massNumber(id) - chargeNumber(id)), 1),
                        Rat(massNumber(id), 1))),
         RMul(RMul(RAdd(One, z), RAdd(One, z)), getRedshiftScaling(z)))

\* line 111: index of the closest gamma tabulation point
elasticRow(lg) ==
    Floor(RMul(RDiv(RSub(lg, Rat(lgmin, 1)), RSub(Rat(lgmax, 1), Rat(lgmin, 1))),
               Rat(nlg - 1, 1)))

\* the loop goes on while step > 0
elasticLoop(e, step) == [e EXCEPT !.step = step, !.pc = IF RGt(step, Zero) THEN "loop" ELSE "idle"]

\* process with the range test of line 90 excluding the end points
elasticEnterOpenRange(cand, e) ==
    LET e1 == [e EXCEPT !.entry = cand, !.draws = <<>>, !.row = -1, !.inside = FALSE,
                        !.calls = @ + 1, !.step = Zero, !.pc = "idle"]
    IN  IF ~isNucleus(cand.current.id) THEN e1
        ELSE IF ~RGt(e.lg, Rat(lgmin, 1)) \/ ~RLt(e.lg, Rat(lgmax, 1)) THEN e1
        ELSE elasticLoop([e1 EXCEPT !.inside = TRUE], cand.currentStep)

\* lines 83-98, up to the first test of the loop
elasticEnter(cand, e) ==
    LET e1 == [e EXCEPT !.entry = cand, !.draws = <<>>, !.row = -1, !.inside = FALSE,
                        !.calls = @ + 1, !.step = Zero, !.pc = "idle"]
    IN  IF ~isNucleus(cand.current.id) THEN e1
        ELSE IF RLt(e.lg, Rat(lgmin, 1)) \/ RGt(e.lg, Rat(lgmax, 1)) THEN e1
        ELSE elasticLoop([e1 EXCEPT !.inside = TRUE], cand.currentStep)

\* elasticTurn with line 121 run twice
elasticTurnTwoPhotons(cand, e, randDist, t) ==
    LET e1 == [e EXCEPT !.draws = Append(@, randDist)]
    IN  IF RLt(e.step, randDist)
        THEN [cand |-> cand, es |-> [e1 EXCEPT !.pc = "idle"]]
        ELSE [cand |-> addSecondary(addSecondary(cand, 22, cand.current.position,
                                                    One, elasticRow(e.lg)),
                                       22,
                                       randomInterpolatedPosition(cand.previous.position,
                                                                  cand.current.position, t),
                                       One, elasticRow(e.lg)),
              es |-> elasticLoop([e1 EXCEPT !.row = elasticRow(e.lg)],
                                 RSub(e.step, randDist))]

\* lines 100-124, one turn of the loop: nlogU is -log(random.rand()), t the
\* draw of randomInterpolatedPosition
elasticTurn(cand, e, randDist, t) ==
    LET e1 == [e EXCEPT !.draws = Append(@, randDist)]
    IN  IF RLt(e.step, randDist)
        THEN [cand |-> cand, es |-> [e1 EXCEPT !.pc = "idle"]]
        ELSE [cand |-> addSecondary(cand, 22,
                           randomInterpolatedPosition(cand.previous.position,
                                                      cand.current.position, t),
                           One, elasticRow(e.lg)),
              es |-> elasticLoop([e1 EXCEPT !.row = elasticRow(e.lg)],
                                 RSub(e.step, randDist))]

elasticDraw(cand, e, nlogU, t) ==
    elasticTurn(cand, e, RDiv(nlogU, elasticRate(e.tab, cand.current.id, cand.redshift)), t)

\* -log(random.rand()) for rand() in [0,1]: 0 for a draw of 1, infinite for 0
NegLogDraws == {Zero, Rat(1, 2), One, Rat(2, 1), PInf}

InterpolationDraws == {Rat(1, 2)}

LgValues == {Rat(5, 1), Rat(lgmin, 1), Rat(301, 50), Rat(10, 1), Rat(lgmax, 1), Rat(15, 1)}

TableRates == {One}

ScatterKinds ==
    {<<22, One, Zero, Zero>>,
     <<2112, One, Zero, Zero>>,
     <<1000010010, One, Zero, Zero>>,
     <<1000020040, One, Zero, Zero>>,
     <<4110010, One, One, One>>}

ScatterSteps == {Zero, One, Rat(2, 1)}

\* a candidate that has taken a step of length h along its direction
Stepped(p, h) ==
    [NewCandidate(p, h) EXCEPT !.currentStep = h,
         !.current = setPosition(p, VAdd(p.position, VScale(p.direction, h)))]

InitScatter ==
    /\ \E k \in ScatterKinds, h \in ScatterSteps :
           candidate = Stepped(NewParticleState(k[1], k[2], VZero, Axis, k[3], k[4]), h)
    /\ \E lg \in LgValues, tab \in TableRates : es = Scatter("idle", lg, tab)
    /\ bp \in {FixedStepConstructor(TRUE, One).bp}
    /\ loc = LocIdle
    /\ obs = ObsInit(candidate)
    /\ twin = NoTwin
    /\ setup = NoSetup
    /\ mr = NoRadiation
    /\ em = NoCascade
    /\ pl = NoPipeline
    /\ maps = NoMaps

ElasticEnter ==
    /\ es.pc = "idle"
    /\ es.calls < MaxScatterCalls
    /\ es' = elasticEnter(candidate, es)
    /\ UNCHANGED <<bp, candidate, loc, obs, twin, maps, setup, mr, em, pl>>

ElasticDraw ==
    /\ es.pc = "loop"
    /\ Len(es.draws) < MaxDraws
    /\ \E nlogU \in NegLogDraws, t \in InterpolationDraws :
           \E n \in {elasticDraw(candidate, es, nlogU, t)} :
               /\ candidate' = n.cand
               /\ es' = n.es
    /\ UNCHANGED <<bp, loc, obs, twin, maps, setup, mr, em, pl>>

NextScatter == ElasticEnter \/ ElasticDraw

SpecScatter == InitScatter /\ [][NextScatter]_vars

\* ElasticScattering::process has returned
AfterScatter == es.pc = "idle" /\ es.calls > 0

(***************************************************************************)
(* MonopoleRadiation                                                       *)
(***************************************************************************)
\* the unit factor mu0 / 6 / M_PI of the energy loss (model units)
mu0_6pi == One

MaxRadiationCalls == 2

setThinning(mod, thinning) == [mod EXCEPT !.thinning = thinning]

\* pow(a, n) for a whole number n
RECURSIVE PowN(_, _)
PowN(a, n) == IF n = 0 THEN One ELSE RMul(a, PowN(a, n - 1))

\* lines 129-130: step size in the local frame, beta and d(beta)/dt
radiationStep(cand) == RDiv(cand.currentStep, RAdd(One, cand.redshift))

radiationBeta(cand) == VDiv(getVelocity(cand.current), c_light)

radiationDbeta(cand) ==
    VDiv(VSub(getVelocity(cand.current), getVelocity(cand.previous)), radiationStep(cand))

\* line 134
radiationdEdx(cand, beta, dbeta) ==
    RMul(RMul(RMul(mu0_6pi, PowN(getLorentzFactor(cand.current), 6)),
              PowN(RDiv(RAbs(cand.current.mcharge), c_light), 2)),
         RSub(VDot(dbeta, dbeta), VDot(VCross(beta, dbeta), VCross(beta, dbeta))))

\* lines 135-141: the loss is recorded and applied, the next step limited
radiationApply(cand, limit, dEdx, dE) ==
    limitNextStep([cand EXCEPT !.stepRadiation = dE,
                               !.current = setEnergy(cand.current,
                                                     RSub(cand.current.energy, dE))],
                  RDiv(RMul(limit, cand.current.energy), dEdx))

\* MonopoleRadiation::process.  B of lines 116-125 is not read again; the
\* field, when there is one, is sampled outside any try block.  The sampling
\* of photons that followed line 145 is commented out: with or without
\* havePhotons, process enqueues nothing.
radiationProcess(m, cand, ok, dEdx) ==
    LET called == [m EXCEPT !.entry = cand, !.calls = @ + 1, !.dE = Zero,
                            !.photons = <<>>, !.threw = FALSE]
    IN  IF REq(RAbs(cand.current.mcharge), Zero)
        THEN [cand |-> cand, mr |-> called]
        ELSE IF m.mod.valid /\ ~ok
        THEN [cand |-> cand, mr |-> [called EXCEPT !.threw = TRUE]]
        ELSE [cand |-> radiationApply(cand, m.mod.limit, dEdx,
                                      RMul(radiationStep(cand), dEdx)),
              mr |-> [called EXCEPT !.dE = RMul(radiationStep(cand), dEdx)]]

\* the value an uninitialised double may hold
Indeterminate == {Zero, Rat(1, 2), NaN}

Thinnings == {Rat(1, 2), One}

RadiationLimits == {Rat(1, 10)}

RadiationKinds == {22, 4110010, -4110010}

RadiationEnergies == {Zero, Rat(1, 4), Rat(2, 3)}

RadiationDirections == {Axis, Vec(Zero, One, Zero)}

RadiationSteps == {Zero, One, Rat(2, 1)}

RadiationStates(id) ==
    {NewParticleState(id, E, VZero, d, One, One) :
         E \in RadiationEnergies, d \in RadiationDirections}

\* a candidate as a propagation step leaves it
AfterStep(prev, cur, h) ==
    [NewCandidate(cur, Rat(4, 1)) EXCEPT !.previous = prev, !.currentStep = h]

InitRadiation ==
    /\ bp \in {FixedStepConstructor(TRUE, One).bp}
    /\ \E id \in RadiationKinds, h \in RadiationSteps :
           \E prev \in RadiationStates(id), cur \in RadiationStates(id) :
               candidate = AfterStep(prev, cur, h)
    /\ loc = LocIdle
    /\ obs = ObsInit(candidate)
    /\ twin = NoTwin
    /\ setup = NoSetup
    /\ es = NoScatter
    /\ em = NoCascade
    /\ pl = NoPipeline
    /\ maps = NoMaps
    /\ \E valid \in BOOLEAN, havePhotons \in BOOLEAN, t \in Thinnings,
          limit \in RadiationLimits, garbage \in Indeterminate :
           mr = Radiation(MonopoleRadiationConstructor(valid, Zero, havePhotons, t, 1,
                                                       limit, garbage))

SetThinning ==
    /\ mr.calls = 0
    /\ \E t \in Thinnings : mr' = [mr EXCEPT !.mod = setThinning(@, t)]
    /\ UNCHANGED <<bp, candidate, loc, obs, twin, maps, setup, es, em, pl>>

Radiate ==
    /\ mr.calls < MaxRadiationCalls
    /\ SqrtExact(getVelocityArg(candidate.current))
    /\ SqrtExact(getVelocityArg(candidate.previous))
    /\ \E ok \in BOOLEAN :
       \E dEdx \in {radiationdEdx(candidate, radiationBeta(candidate),
                                   radiationDbeta(candidate))} :
       \E r \in {radiationProcess(mr, candidate, ok, dEdx)} :
           /\ candidate' = r.cand
           /\ mr' = r.mr
    /\ UNCHANGED <<bp, loc, obs, twin, maps, setup, es, em, pl>>

NextRadiation == SetThinning \/ Radiate

SpecRadiation == InitRadiation /\ [][NextRadiation]_vars

\* MonopoleRadiation::process has returned normally
AfterRadiation == mr.calls > 0 /\ ~mr.threw

(***************************************************************************)
(* EMCascade                                                               *)
(***************************************************************************)
nE == 170

logEmin == 7

logEmax == 24

dlogE == Rat(1, 10)

MaxCascadeCalls == 3

Workers == {1, 2}

\* the conversion of a double to int
Trunc(r) == IF RLt(r, Zero) THEN -Floor(RNeg(r)) ELSE Floor(r)

\* a histogram, kept as its entries that were written; the others are 0
EmptyHist == [j \in {} |-> 0]

Entry(h, j) == IF j \in DOMAIN h THEN h[j] ELSE 0

Store(h, j, n) == [k \in DOMAIN h \cup {j} |-> IF k = j THEN n ELSE h[k]]

RECURSIVE SumOver(_, _)
SumOver(h, js) ==
    IF js = {} THEN 0
    ELSE LET j == CHOOSE k \in js : TRUE
         IN  h[j] + SumOver(h, js \ {j})

HistTotal(h) == SumOver(h, DOMAIN h)

\* setDistanceBinning and init: nD * nE zeros in each histogram
setDistanceBinning(Dmax, nD) ==
    [Dmax |-> Dmax, nD |-> nD, dD |-> RDiv(Dmax, Rat(nD, 1)),
     photonHist |-> EmptyHist, electronHist |-> EmptyHist, positronHist |-> EmptyHist]

\* a worker between two calls of process
WorkerIdle ==
    [pc |-> "idle", id |-> 0, iE |-> 0, iD |-> 0, i |-> 0, tmp |-> 0, active |-> TRUE,
     counted |-> FALSE]

\* the module, the owner of the critical section (0 when free), the number of
\* calls, of calls that passed the range checks, of increments that landed
\* outside the histograms, and each worker's call
Cascade(mod) ==
    [mod |-> mod, lock |-> 0, calls |-> 0, passed |-> 0, outside |-> 0,
     crashed |-> FALSE, w |-> [k \in Workers |-> WorkerIdle]]

\* the histogram an id is counted in
HistOf(id) ==
    IF id = 22 THEN "photonHist" ELSE IF id = 11 THEN "electronHist" ELSE "positronHist"

\* lines 187-203: the part of process before the critical section
cascadeEnter(e, k, id, logE, D) ==
    LET called == [e EXCEPT !.calls = @ + 1, !.w[k] = [WorkerIdle EXCEPT !.id = id]]
        off    == [called EXCEPT !.w[k].active = FALSE]
    IN  IF id # 22 /\ id # 11 /\ id # -11 THEN called
        ELSE IF RLt(logE, Rat(logEmin, 1)) \/ RGt(logE, Rat(logEmax, 1)) THEN off
        ELSE IF RGt(D, e.mod.Dmax) THEN off
        ELSE [off EXCEPT !.passed = @ + 1,
                         !.w[k].pc = "critical",
                         !.w[k].iE = Trunc(RDiv(RSub(logE, Rat(logEmin, 1)), dlogE)),
                         !.w[k].iD = Trunc(RDiv(D, e.mod.dD)),
                         !.w[k].i = Trunc(RDiv(D, e.mod.dD)) * nE
                                    + Trunc(RDiv(RSub(logE, Rat(logEmin, 1)), dlogE))]

\* line 205: one thread at a time is inside the critical section
criticalFree(e) == e.lock = 0

cascadeAcquire(e, k) == [e EXCEPT !.lock = k, !.w[k].pc = "read"]

\* the index addresses an element of the vectors
InHist(e, j) == 0 <= j /\ j < e.mod.nD * nE

\* lines 207-212, the read of hist[i] += 1
cascadeRead(e, k) ==
    [e EXCEPT !.w[k].tmp = Entry(e.mod[HistOf(e.w[k].id)], e.w[k].i), !.w[k].pc = "write"]

\* lines 207-213, the write of hist[i] += 1, and the end of the section
cascadeWrite(e, k) ==
    [e EXCEPT !.mod[HistOf(e.w[k].id)] = Store(@, e.w[k].i, e.w[k].tmp + 1),
              !.lock = 0, !.w[k].pc = "idle", !.w[k].counted = TRUE]

\* hist[i] += 1 with i outside the vector is undefined: the increment lands
\* in memory that is no histogram entry, or the program stops
cascadeOutside(e, k, crash) ==
    IF crash THEN [e EXCEPT !.crashed = TRUE]
    ELSE [e EXCEPT !.outside = @ + 1, !.lock = 0, !.w[k].pc = "idle"]

CascadeIds == {22, 11, -11, 1000010010}

CascadeLogEs == {Rat(6, 1), Rat(logEmin, 1), Rat(logEmax, 1)}

CascadeDmax == 2

CascadeBins == 2

CascadeDistances == {Zero, Rat(CascadeDmax, 1), Rat(3, 1)}

InitCascade ==
    /\ bp \in {FixedStepConstructor(TRUE, One).bp}
    /\ candidate = NewCandidate(ParticleZero, Zero)
    /\ loc = LocIdle
    /\ obs = ObsInit(candidate)
    /\ twin = NoTwin
    /\ setup = NoSetup
    /\ es = NoScatter
    /\ mr = NoRadiation
    /\ em = Cascade(setDistanceBinning(Rat(CascadeDmax, 1), CascadeBins))
    /\ pl = NoPipeline
    /\ maps = NoMaps

CascadeEnter(k) ==
    /\ ~em.crashed
    /\ em.w[k].pc = "idle"
    /\ em.calls < MaxCascadeCalls
    /\ \E id \in CascadeIds, logE \in CascadeLogEs, D \in CascadeDistances :
           em' = cascadeEnter(em, k, id, logE, D)
    /\ UNCHANGED <<bp, candidate, loc, obs, twin, maps, setup, es, mr, pl>>

CascadeAcquire(k) ==
    /\ ~em.crashed
    /\ em.w[k].pc = "critical"
    /\ criticalFree(em)
    /\ em' = cascadeAcquire(em, k)
    /\ UNCHANGED <<bp, candidate, loc, obs, twin, maps, setup, es, mr, pl>>

CascadeRead(k) ==
    /\ ~em.crashed
    /\ em.w[k].pc = "read"
    /\ InHist(em, em.w[k].i)
    /\ em' = cascadeRead(em, k)
    /\ UNCHANGED <<bp, candidate, loc, obs, twin, maps, setup, es, mr, pl>>

CascadeWrite(k) ==
    /\ ~em.crashed
    /\ em.w[k].pc = "write"
    /\ em' = cascadeWrite(em, k)
    /\ UNCHANGED <<bp, candidate, loc, obs, twin, maps, setup, es, mr, pl>>

CascadeOutside(k) ==
    /\ ~em.crashed
    /\ em.w[k].pc = "read"
    /\ ~InHist(em, em.w[k].i)
    /\ \E crash \in BOOLEAN : em' = cascadeOutside(em, k, crash)
    /\ UNCHANGED <<bp, candidate, loc, obs, twin, maps, setup, es, mr, pl>>

NextCascade ==
    \E k \in Workers :
        \/ CascadeEnter(k)
        \/ CascadeAcquire(k)
        \/ CascadeRead(k)
        \/ CascadeWrite(k)
        \/ CascadeOutside(k)

SpecCascade == InitCascade /\ [][NextCascade]_vars

\* every call of process has returned
CascadeQuiet == ~em.crashed /\ \A k \in Workers : em.w[k].pc = "idle"

\* the sum of all entries of the three histograms
CascadeCounted ==
    HistTotal(em.mod.photonHist) + HistTotal(em.mod.electronHist)
        + HistTotal(em.mod.positronHist)

(***************************************************************************)
(* The module pipeline, with the modules that write the active flag        *)
(***************************************************************************)
MaxIterations == 3

\* EMCascade::process called by one thread: the whole call
emCascadeProcess(cand, e, logE, crash) ==
    LET e1 == cascadeEnter(e, 1, cand.current.id, logE, GetR(cand.current.position))
        e2 == IF e1.w[1].pc # "critical" THEN e1
              ELSE IF InHist(e1, e1.w[1].i)
              THEN cascadeWrite(cascadeRead(cascadeAcquire(e1, 1), 1), 1)
              ELSE cascadeOutside(cascadeAcquire(e1, 1), 1, crash)
    IN  [cand |-> IF e1.w[1].active THEN cand ELSE [cand EXCEPT !.active = FALSE],
         em |-> e2]

\* PhotonEleCa::process with line 124 reading setActive(id != 22) for every id
photonEleCaSetsFlag(cand, p) ==
    [cand |-> [cand EXCEPT !.active = cand.current.id # 22],
     pl |-> IF cand.current.id # 22 THEN p ELSE [p EXCEPT !.written = @ + 1]]

\* PhotonEleCa::process: a photon is handed to EleCa, the cascade is written
\* to the output, and the candidate is deactivated
photonEleCaProcess(cand, p) ==
    IF cand.current.id # 22 THEN [cand |-> cand, pl |-> p]
    ELSE [cand |-> [cand EXCEPT !.active = FALSE], pl |-> [p EXCEPT !.written = @ + 1]]

PipelineIds == {22, 11, -11, 1000010010}

PipelineLogEs == {Rat(6, 1), Rat(logEmin, 1)}

Chains ==
    {<<"MonopolePropagationBP", "EMCascade", "PhotonEleCa">>,
     <<"MonopolePropagationBP", "PhotonEleCa", "EMCascade">>,
     <<"MonopolePropagationBP", "EMCascade">>,
     <<"MonopolePropagationBP", "PhotonEleCa">>,
     <<"MonopolePropagationBP">>}

InitPipeline ==
    /\ bp \in {FixedStepConstructor(TRUE, One).bp}
    /\ \E id \in PipelineIds :
           candidate = NewCandidate(NewParticleState(id, One, VZero, Axis, Zero, Zero), One)
    /\ loc = LocIdle
    /\ obs = ObsInit(candidate)
    /\ twin = NoTwin
    /\ setup = NoSetup
    /\ es = NoScatter
    /\ mr = NoRadiation
    /\ em = Cascade(setDistanceBinning(Rat(CascadeDmax, 1), CascadeBins))
    /\ \E chain \in Chains : pl = Pipeline(chain)
    /\ maps = NoMaps

\* the pipeline picks the pending candidate up
PipelinePick ==
    /\ pl.state = "Pending"
    /\ pl' = [pl EXCEPT !.state = "Active", !.iteration = 1, !.next = 1]
    /\ UNCHANGED <<bp, candidate, loc, obs, twin, maps, setup, es, mr, em>>

Ran(p) == [p EXCEPT !.next = @ + 1, !.runs = @ + 1]

\* the integrator's turn: the particles of this chain carry no magnetic
\* charge, so processEnter is the whole call
RunPropagation ==
    /\ pl.state = "Active"
    /\ pl.next <= Len(pl.chain)
    /\ pl.chain[pl.next] = "MonopolePropagationBP"
    /\ REq(candidate.current.mcharge, Zero)
    /\ \E n \in {processEnter(bp, candidate, obs)} :
           /\ candidate' = n.cand
           /\ loc' = n.loc
           /\ obs' = n.obs
    /\ pl' = Ran(pl)
    /\ UNCHANGED <<bp, twin, maps, setup, es, mr, em>>

RunEMCascade ==
    /\ pl.state = "Active"
    /\ pl.next <= Len(pl.chain)
    /\ pl.chain[pl.next] = "EMCascade"
    /\ ~em.crashed
    /\ GetRExact(candidate.current.position)
    /\ \E logE \in PipelineLogEs, crash \in BOOLEAN :
       \E n \in {emCascadeProcess(candidate, em, logE, crash)} :
           /\ candidate' = n.cand
           /\ em' = n.em
    /\ pl' = Ran(pl)
    /\ UNCHANGED <<bp, loc, obs, twin, maps, setup, es, mr>>

RunPhotonEleCa ==
    /\ pl.state = "Active"
    /\ pl.next <= Len(pl.chain)
    /\ pl.chain[pl.next] = "PhotonEleCa"
    /\ \E n \in {photonEleCaProcess(candidate, Ran(pl))} :
           /\ candidate' = n.cand
           /\ pl' = n.pl
    /\ UNCHANGED <<bp, loc, obs, twin, maps, setup, es, mr, em>>

\* after all modules ran: an inactive candidate is terminated, an active
\* one stays for the next iteration
PipelineEndIteration ==
    /\ pl.state = "Active"
    /\ pl.next > Len(pl.chain)
    /\ candidate.active => pl.iteration < MaxIterations
    /\ pl' = IF candidate.active
             THEN [pl EXCEPT !.iteration = @ + 1, !.next = 1]
             ELSE [pl EXCEPT !.state = "Terminated"]
    /\ UNCHANGED <<bp, candidate, loc, obs, twin, maps, setup, es, mr, em>>

NextPipeline ==
    \/ PipelinePick
    \/ RunPropagation
    \/ RunEMCascade
    \/ RunPhotonEleCa
    \/ PipelineEndIteration

SpecPipeline == InitPipeline /\ [][NextPipeline]_vars

\* all modules of the iteration have run
IterationOver == pl.state = "Active" /\ pl.next > Len(pl.chain)

(***************************************************************************)
(* The retry loop on subnormal steps: one call of process at a time, with  *)
(* the error ratio of every trial an input                                 *)
(***************************************************************************)
\* +inf is the ratio of a positive error at tolerance 0
ErrorRatios == {Zero, One, <<2, 1>>, <<4, 1>>, PInf}

SubnormalIntegrators ==
    {AdaptiveConstructor(TRUE, Rat(1, 6), minStep, Rat(MaxQuanta, 1)).bp :
         minStep \in {Zero, One}}

SubnormalNextSteps == {Rat(k, 1) : k \in 0..MaxQuanta} \cup {Rat(8, 1)}

SubnormalParticles ==
    {NewParticleState(k[1], k[2], VZero, Axis, k[3], k[4]) :
         k \in {<<4110010, One, One, One>>, <<-4110010, One, One, One>>}}

InitRetry ==
    /\ bp \in SubnormalIntegrators
    /\ \E p \in SubnormalParticles, n \in SubnormalNextSteps :
           candidate = NewCandidate(p, n)
    /\ loc = LocIdle
    /\ obs = ObsInit(candidate)
    /\ twin = NoTwin
    /\ ModulesIdle

\* process, lines 57-88
RetryEnter ==
    /\ loc.pc = "idle"
    /\ obs.pushes < MaxPushes
    /\ \E n \in {processEnter(bp, candidate, obs)} :
           /\ candidate' = n.cand
           /\ loc' = n.loc
           /\ obs' = n.obs
    /\ UNCHANGED <<bp, twin>>
    /\ UNCHANGED moduleVars

\* process, one pass of the loop of lines 91-111
RetryTrial ==
    /\ loc.pc = "trial"
    /\ \E r \in ErrorRatios :
           \E n \in {retryDecision(bp, loc, obs, r)} :
               /\ loc' = n.loc
               /\ obs' = n.obs
    /\ UNCHANGED <<bp, candidate, twin>>
    /\ UNCHANGED moduleVars

\* process, lines 114-123
RetryAccept ==
    /\ loc.pc = "accept"
    /\ \E s4 \in Samples :
           \E n \in {processAccept(bp, candidate, loc, obs, s4)} :
               /\ n.exact
               /\ candidate' = n.cand
               /\ loc' = n.loc
               /\ obs' = n.obs
    /\ UNCHANGED <<bp, twin>>
    /\ UNCHANGED moduleVars

NextRetry == RetryEnter \/ RetryTrial \/ RetryAccept

\* the call is one sequential program: a pass of the loop that can run, runs
SpecRetry ==
    /\ InitRetry
    /\ [][NextRetry]_vars
    /\ WF_vars(RetryTrial)

(***************************************************************************)
(* EmissionMap and CylindricalProjectionMap, for the map of one key.       *)
(* Angles are counted in turns of 2 pi, so M_PI is 1/2 and sPhi is         *)
(* 1 / nPhi; weights are whole numbers.                                    *)
(***************************************************************************)
\* Vector3::getPhi, atan2(y, x), in turns, for (x, y) on an axis or a diagonal
getPhi(v) ==
    IF REq(v[2], Zero) THEN (IF RLt(v[1], Zero) THEN Rat(1, 2) ELSE Zero)
    ELSE IF REq(v[1], Zero) THEN (IF RGt(v[2], Zero) THEN Rat(1, 4) ELSE Rat(-1, 4))
    ELSE IF RGt(v[2], Zero) THEN (IF RGt(v[1], Zero) THEN Rat(1, 8) ELSE Rat(3, 8))
    ELSE (IF RGt(v[1], Zero) THEN Rat(-1, 8) ELSE Rat(-3, 8))

\* sin(M_PI_2 - getTheta()), the cosine of the polar angle
sinOfLatitude(v) == RDiv(v[3], GetR(v))

\* lines 214-219: the two indices of the bin
binIPhi(cpm, direction) ==
    Trunc(RDiv(RAdd(getPhi(direction), Rat(1, 2)), Rat(1, cpm.nPhi)))

binITheta(cpm, direction) ==
    Trunc(RDiv(RAdd(sinOfLatitude(direction), One), Rat(2, cpm.nTheta)))

binFromDirection(cpm, direction) ==
    binITheta(cpm, direction) * cpm.nPhi + binIPhi(cpm, direction)

\* the bin addresses an element of pdf
InPdf(cpm, bin) == 0 <= bin /\ bin < cpm.nPhi * cpm.nTheta

\* fillBin(size_t bin, double weight) for a bin inside the vector
fillBin(cpm, bin, weight) == [cpm EXCEPT !.pdf[bin + 1] = @ + weight, !.dirty = TRUE]

\* pdf[0] + ... + pdf[i - 1]
RECURSIVE RunningSum(_, _)
RunningSum(pdf, i) == IF i = 0 THEN 0 ELSE RunningSum(pdf, i - 1) + pdf[i]

updateCdf(cpm) ==
    IF cpm.dirty
    THEN [cpm EXCEPT !.cdf = [i \in DOMAIN cpm.pdf |-> RunningSum(cpm.pdf, i)],
                     !.dirty = FALSE]
    ELSE cpm

\* CylindricalProjectionMap::drawDirection, up to the bin drawn from cdf
cpmDrawDirection(cpm) == IF cpm.dirty THEN updateCdf(cpm) ELSE cpm

\* getMap: the map of the key, made if there is none
getMap(m, nPhi, nTheta) ==
    IF m.has THEN m ELSE [m EXCEPT !.has = TRUE, !.cpm = CylindricalProjectionMap(nPhi, nTheta)]

\* a call on the EmissionMap that computed a bin from a direction
binCall(m, call, direction) ==
    [m EXCEPT !.last = call, !.ops = @ + 1,
              !.iPhi = binIPhi(m.cpm, direction),
              !.iTheta = binITheta(m.cpm, direction),
              !.bin = binFromDirection(m.cpm, direction)]

\* fillMap(pid, energy, direction, weight).  pdf[bin] += weight with the bin
\* outside the vector is undefined: the write lands in memory that is no
\* element of pdf, or the program stops
fillMap(m, nPhi, nTheta, direction, weight, crash) ==
    LET g == binCall(getMap(m, nPhi, nTheta), "fillMap", direction)
    IN  IF InPdf(g.cpm, g.bin) THEN [g EXCEPT !.cpm = fillBin(@, g.bin, weight)]
        ELSE IF crash THEN [g EXCEPT !.crashed = TRUE]
        ELSE [g EXCEPT !.cpm.dirty = TRUE, !.outside = @ + 1]

\* EmissionMap::checkDirection: false when the key has no map; the read of
\* pdf[bin] outside the vector is undefined
checkDirection(m, direction, crash) ==
    IF ~m.has THEN [m EXCEPT !.last = "none checked", !.ops = @ + 1]
    ELSE LET g == binCall(m, "checkDirection", direction)
         IN  IF InPdf(g.cpm, g.bin) \/ ~crash THEN g ELSE [g EXCEPT !.crashed = TRUE]

\* the loop of merge over the bins, from bin k on
RECURSIVE mergeBins(_, _, _)
mergeBins(cpm, otherpdf, k) ==
    IF k >= Len(otherpdf) THEN cpm
    ELSE mergeBins(fillBin(cpm, k, otherpdf[k + 1]), otherpdf, k + 1)

\* merge(other), other holding a map of the key with pdf otherpdf
merge(m, nPhi, nTheta, otherpdf) ==
    [getMap(m, nPhi, nTheta) EXCEPT !.cpm = mergeBins(@, otherpdf, 0),
                                    !.last = "merge", !.ops = @ + 1]

\* load of a file with one line for the key: a new map, its pdf read in place
load(m, nPhi, nTheta, filepdf) ==
    [m EXCEPT !.has = TRUE,
              !.cpm = [CylindricalProjectionMap(nPhi, nTheta) EXCEPT !.pdf = filepdf],
              !.last = "load", !.ops = @ + 1]

\* EmissionMap::drawDirection: false when the key has no map
drawDirection(m) ==
    IF ~m.has THEN [m EXCEPT !.last = "none drawn", !.ops = @ + 1]
    ELSE [m EXCEPT !.cpm = cpmDrawDirection(@), !.last = "drawDirection", !.ops = @ + 1]

MapWeights == {1, 2}

\* unit directions: the six along the axes, two on the diagonals of the
\* x-y plane tilted out of it, and one between the axes x and z
MapDirections ==
    {Vec(One, Zero, Zero), Vec(Rat(-1, 1), Zero, Zero), Vec(Zero, One, Zero),
     Vec(Zero, Rat(-1, 1), Zero), Vec(Zero, Zero, One), Vec(Zero, Zero, Rat(-1, 1)),
     Vec(Rat(2, 3), Rat(2, 3), Rat(1, 3)), Vec(Rat(-2, 3), Rat(-2, 3), Rat(-1, 3)),
     Vec(Rat(3, 5), Zero, Rat(-4, 5))}

\* the pdf of a map in a file or in another EmissionMap
MapPdfs ==
    {[k \in 1..(MapNPhi * MapNTheta) |-> 0], [k \in 1..(MapNPhi * MapNTheta) |-> 1],
     [k \in 1..(MapNPhi * MapNTheta) |-> IF k = 1 THEN 0 ELSE 1]}

InitMaps ==
    /\ maps = NoMaps
    /\ candidate = NewCandidate(ParticleZero, Zero)
    /\ bp \in {FixedStepConstructor(TRUE, One).bp}
    /\ loc = LocIdle
    /\ obs = ObsInit(candidate)
    /\ twin = NoTwin
    /\ setup = NoSetup
    /\ es = NoScatter
    /\ mr = NoRadiation
    /\ em = NoCascade
    /\ pl = NoPipeline

MapsUnchanged == UNCHANGED <<bp, candidate, loc, obs, twin, setup, es, mr, em, pl>>

MapsRunning == maps.ops < MaxMapCalls /\ ~maps.crashed

FillMap ==
    /\ MapsRunning
    /\ \E direction \in MapDirections, weight \in MapWeights, crash \in BOOLEAN :
           maps' = fillMap(maps, MapNPhi, MapNTheta, direction, weight, crash)
    /\ MapsUnchanged

CheckDirection ==
    /\ MapsRunning
    /\ \E direction \in MapDirections, crash \in BOOLEAN :
           maps' = checkDirection(maps, direction, crash)
    /\ MapsUnchanged

Merge ==
    /\ MapsRunning
    /\ \E otherpdf \in MapPdfs : maps' = merge(maps, MapNPhi, MapNTheta, otherpdf)
    /\ MapsUnchanged

Load ==
    /\ MapsRunning
    /\ \E filepdf \in MapPdfs : maps' = load(maps, MapNPhi, MapNTheta, filepdf)
    /\ MapsUnchanged

DrawDirection ==
    /\ MapsRunning
    /\ maps' = drawDirection(maps)
    /\ MapsUnchanged

NextMaps == FillMap \/ CheckDirection \/ Merge \/ Load \/ DrawDirection

SpecMaps == InitMaps /\ [][NextMaps]_vars

(***************************************************************************)
(* Properties                                                              *)
(***************************************************************************)
\* the call took the Boris push (magnetic charge not zero at entry)
Pushed == ~REq(obs.entry.current.mcharge, Zero)

\* neither electric nor magnetic charge at entry
Neutral ==
    /\ REq(obs.entry.current.charge, Zero)
    /\ REq(obs.entry.current.mcharge, Zero)

EntryClip == clip(obs.entry.nextStep, bp.minStep, bp.maxStep)

FixedMode == REq(bp.minStep, bp.maxStep)

\* C1: after every process call the step taken lies between minStep and the
\* incoming nextStep clamped to [minStep, maxStep]:
\* minStep <= currentStep <= clip(nextStep at entry, minStep, maxStep).
C1_CurrentStepWithinLimits ==
    AfterProcess =>
        /\ RLe(bp.minStep, candidate.currentStep)
        /\ RLe(candidate.currentStep, EntryClip)

\* a call that rejected a trial and took a step below the clamped incoming one
C1_ShrunkStepTaken ==
    /\ AfterProcess
    /\ Len(obs.rejected) >= 1
    /\ RLt(candidate.currentStep, EntryClip)
    /\ RLe(bp.minStep, candidate.currentStep)

C3_FixedStepSingleTrial ==
    FixedMode =>
        /\ obs.trials <= 1
        /\ obs.rejected = <<>>
        /\ AfterProcess =>
              /\ Pushed => obs.trials = 1 /\ obs.samples = 4
              /\ REq(candidate.currentStep, bp.maxStep)
              /\ REq(candidate.nextStep, bp.maxStep)

\* a fixed-step call accepted with an error ratio above one
C3_FixedStepAcceptedLargeError ==
    /\ FixedMode
    /\ AfterProcess
    /\ Pushed
    /\ obs.trials = 1
    /\ RGt(obs.r, One)
    /\ REq(candidate.currentStep, bp.maxStep)

\* C4: an integrator from the fixed-step constructor and one from the
\* adaptive constructor with minStep = maxStep = h leave equal candidates
\* after any number of process calls on equal candidates in the same field.
C4_ConstructorsAgreeAtEqualSteps ==
    (loc.pc = "idle" /\ twin.loc.pc = "idle") => candidate = twin.candidate

\* two pushes taken by both, with different tolerances, that changed the energy
C4_TwoPushesAgree ==
    /\ loc.pc = "idle"
    /\ twin.loc.pc = "idle"
    /\ obs.calls = 2
    /\ twin.obs.calls = 2
    /\ Pushed
    /\ ~REq(bp.tolerance, twin.bp.tolerance)
    /\ RGt(candidate.current.energy, obs.start.energy)
    /\ candidate = twin.candidate

\* C5: a call on a candidate with neither charge samples no field, leaves
\* direction and energy as they were, moves the position by
\* direction * currentStep, and takes currentStep = clip(nextStep, minStep, maxStep).
C5_NeutralRectilinear ==
    (AfterProcess /\ Neutral) =>
        /\ obs.samples = 0
        /\ candidate.current.direction = obs.entry.current.direction
        /\ candidate.current.energy = obs.entry.current.energy
        /\ candidate.current.position =
               VAdd(obs.entry.current.position,
                    VScale(obs.entry.current.direction, candidate.currentStep))
        /\ candidate.currentStep = EntryClip

\* a neutral call whose incoming nextStep was clamped down to maxStep
C5_NeutralStepClamped ==
    /\ AfterProcess
    /\ Neutral
    /\ RGt(obs.entry.nextStep, bp.maxStep)
    /\ REq(candidate.currentStep, bp.maxStep)
    /\ RGt(bp.maxStep, bp.minStep)
    /\ obs.samples = 0

\* C6: for a candidate with neither charge, after any number of calls the
\* position is start + direction * (sum of the currentSteps), direction and
\* energy are the starting ones and there are no secondaries; ten calls with
\* minStep = maxStep = 1 from the origin along (1,0,0) end at (10,0,0).
C6_NeutralPathAdditive ==
    (loc.pc = "idle" /\ REq(obs.start.charge, Zero) /\ REq(obs.start.mcharge, Zero)) =>
        /\ candidate.current.position =
               VAdd(obs.start.position, VScale(obs.start.direction, obs.path))
        /\ candidate.current.direction = obs.start.direction
        /\ candidate.current.energy = obs.start.energy
        /\ candidate.secondaries = <<>>
        /\ (/\ obs.calls = 10
            /\ REq(bp.minStep, One)
            /\ REq(bp.maxStep, One)
            /\ obs.start.position = VZero
            /\ obs.start.direction = Axis)
           => candidate.current.position = Vec(Rat(10, 1), Zero, Zero)

\* ten unit steps from the origin along (1,0,0)
C6_TenUnitSteps ==
    /\ loc.pc = "idle"
    /\ obs.calls = 10
    /\ REq(obs.start.mcharge, Zero)
    /\ REq(obs.start.charge, Zero)
    /\ REq(bp.minStep, One)
    /\ REq(bp.maxStep, One)
    /\ obs.start.direction = Axis
    /\ candidate.current.position = Vec(Rat(10, 1), Zero, Zero)

\* C7: on every path through process, candidate.previous after the call is
\* candidate.current as it was at entry.
C7_PreviousIsEntryState ==
    (obs.last \in {"enter", "process"}) => candidate.previous = obs.entry.current

\* a call on the push path that moved the state and changed its energy
C7_PreviousAfterMove ==
    /\ AfterProcess
    /\ Pushed
    /\ candidate.previous = obs.entry.current
    /\ candidate.current.position # candidate.previous.position
    /\ candidate.current.energy # candidate.previous.energy

\* C8: a failed sample counts as the zero vector and the call completes; when
\* every sample of a call on the push path fails, direction and energy are
\* as at entry and the position has moved by direction * currentStep.
C8_AllSamplesFailedStraightStep ==
    (AfterProcess /\ Pushed /\ obs.failed = obs.samples) =>
        /\ candidate.current.direction = obs.entry.current.direction
        /\ candidate.current.energy = obs.entry.current.energy
        /\ candidate.current.position =
               VAdd(obs.entry.current.position,
                    VScale(obs.entry.current.direction, candidate.currentStep))

\* C9: the energy of the state is >= 0 after every mutation.
C9_EnergyNonNegative == RLe(Zero, candidate.current.energy)

\* C10: the direction has norm one after every process call (and after
\* every setDirection call).
C10_DirectionUnitNorm ==
    (loc.pc = "idle") => REq(GetR(candidate.current.direction), One)

\* the argument lies in the open interval (0,1)
InOpenUnitInterval(x) == RLt(Zero, x) /\ RLt(x, One)

\* C11: setTolerance, and with it the adaptive constructor, rejects every
\* tolerance outside the open interval (0,1), the endpoints 0 and 1 among
\* them, and a rejected call leaves the stored tolerance as it was.
C11_ToleranceOutsideOpenIntervalRejected ==
    (setup.call \in {"setTolerance", "adaptive"} /\ ~InOpenUnitInterval(setup.arg)) =>
        /\ setup.threw
        /\ setup.call = "setTolerance" => bp.tolerance = setup.before.tolerance

ScatterAdded == Len(candidate.secondaries) - Len(es.entry.secondaries)

\* the candidate was outside what ElasticScattering handles
OutsideTable ==
    \/ ~isNucleus(es.entry.current.id)
    \/ RLt(es.lg, Rat(lgmin, 1))
    \/ RGt(es.lg, Rat(lgmax, 1))

\* C13: ElasticScattering.process leaves the candidate as it was, with no
\* secondary added, when the candidate is no nucleus or lg is outside
\* [lgmin, lgmax]; lg equal to lgmin or lgmax counts as inside and every
\* row of the table it reads has an index from 0 to nlg-1.
C13_OutsideTableNoEffect ==
    (es.calls > 0) =>
        /\ OutsideTable => candidate = es.entry /\ es.draws = <<>> /\ ~es.inside
        /\ (isNucleus(es.entry.current.id) /\ es.lg \in {Rat(lgmin, 1), Rat(lgmax, 1)})
               => es.inside
        /\ es.row # -1 => es.row \in 0 .. (nlg - 1)
        /\ \A k \in 1 .. Len(candidate.secondaries) :
               candidate.secondaries[k].row \in 0 .. (nlg - 1)

\* an interaction at lg = lgmax, which read the last row of the table
C13_UpperEndPointInteracts ==
    /\ AfterScatter
    /\ es.lg = Rat(lgmax, 1)
    /\ es.inside
    /\ ScatterAdded >= 1
    /\ es.row = nlg - 1

\* the number of leading draws whose running sum stays strictly below limit
RECURSIVE LeadingBelow(_, _, _)
LeadingBelow(draws, sum, limit) ==
    IF draws = <<>> \/ ~RLt(RAdd(sum, Head(draws)), limit) THEN 0
    ELSE 1 + LeadingBelow(Tail(draws), RAdd(sum, Head(draws)), limit)

\* C14: an interaction happens on a draw only if the drawn free path is
\* strictly smaller than the remaining step, so the secondaries added are
\* as many as the leading draws whose running sum stays strictly below
\* currentStep.
C14_InteractionsAreLeadingDrawsBelowStep ==
    (AfterScatter /\ es.inside) =>
        ScatterAdded = LeadingBelow(es.draws, Zero, candidate.currentStep)

\* C15: with a scaled rate of zero ElasticScattering.process adds no
\* secondary, whatever the random draw.
C15_ZeroRateNoSecondary ==
    (es.calls > 0 /\ es.inside
         /\ REq(elasticRate(es.tab, es.entry.current.id, es.entry.redshift), Zero))
        => ScatterAdded = 0

\* the weight times the energy of the photons, summed
RECURSIVE WeightedEnergy(_)
WeightedEnergy(photons) ==
    IF photons = <<>> THEN Zero
    ELSE RAdd(RMul(Head(photons).weight, Head(photons).energy),
              WeightedEnergy(Tail(photons)))

\* C16: with havePhotons and a thinning above 0, the photons a process call
\* enqueues carry, weight times energy, the energy dE the call took from the
\* particle.
C16_WeightedSecondariesCarryLoss ==
    (AfterRadiation /\ mr.mod.havePhotons /\ RGt(mr.mod.thinning, Zero))
        => REq(WeightedEnergy(mr.photons), mr.dE)

\* C17: the increments of the histograms exclude one another, and when every
\* call of EMCascade::process has returned the entries of the three
\* histograms add up to the number of calls that passed the range checks.
C17_NoIncrementLost ==
    /\ \A j, k \in Workers :
           (em.w[j].pc \in {"read", "write"} /\ em.w[k].pc \in {"read", "write"}) => j = k
    /\ CascadeQuiet => CascadeCounted = em.passed

\* mass, charge and magnetic charge of a state
Properties(p) == <<p.pmass, p.charge, p.mcharge>>

\* C18: after setId calls the mass, the charge and the magnetic charge are
\* those a fresh state gets from the latest id (and, for a dyon, from a mass
\* and a magnetic charge a call can supply); a state whose id is no dyon has
\* magnetic charge 0.
C18_PropertiesFollowLatestId ==
    obs.last = "setId" =>
        /\ \E pmass \in NewMasses, mcharge \in NewMcharges :
               Properties(candidate.current)
                   = Properties(setId(ParticleZero, candidate.current.id, pmass, mcharge))
        /\ ~HepIsDyon(candidate.current.id) => REq(candidate.current.mcharge, Zero)

\* the path lies within 6 and 7 times m c^2 / (|g| B0), which encloses the
\* gyration period 2 pi m c^2 / (|g| B0) of the particle the run started with
AboutOnePeriod ==
    LET unit == RDiv(RDiv(RMul(obs.start.energy, c_squared), c_squared),
                     RMul(RAbs(obs.start.mcharge), UniformStrength))
    IN  /\ RLe(RMul(Rat(6, 1), unit), obs.path)
        /\ RLe(obs.path, RMul(Rat(7, 1), unit))

\* the direction is within the integrator's tolerance of (1, 0, 0)
BackOnAxis ==
    RLe(VR2(VSub(candidate.current.direction, Axis)), RMul(bp.tolerance, bp.tolerance))

C20_InactiveStaysOut ==
    [][/\ ~candidate.active => ~candidate'.active
       /\ (IterationOver /\ ~candidate.active) =>
              (pl'.state = "Terminated" /\ pl'.runs = pl.runs)
       /\ pl.state = "Terminated" =>
              (pl' = pl /\ candidate' = candidate /\ em' = em)]_vars

\* a photon that EMCascade or PhotonEleCa deactivated in the first iteration
\* has been terminated
C20_DeactivatedPhotonTerminated ==
    /\ pl.state = "Terminated"
    /\ pl.iteration = 1
    /\ candidate.current.id = 22
    /\ ~candidate.active
    /\ pl.runs = Len(pl.chain)

\* a trial of the adaptive loop has been decided
TrialDecided == ~FixedMode /\ obs.trials >= 1 /\ loc.pc \in {"trial", "accept"}

\* h' = max(h * max(0.95 * r^-0.2, 0.1), minStep)
RetryStep(h, r) ==
    StdMax(RMul(h, StdMax(RMul(Rat(95, 100), PowM02(r)), Rat(1, 10))), bp.minStep)

C22_EnergyGainOverStepTaken ==
    (AfterProcess /\ Pushed) =>
        candidate.current.energy =
            StdMax(Zero,
                   RAdd(obs.entry.current.energy,
                        RMul(RMul(obs.entry.current.mcharge,
                                  VDot(obs.field, candidate.current.direction)),
                             candidate.currentStep)))

\* a step accepted after a rejected larger one has changed the energy
C22_EnergyChangedAfterRetry ==
    /\ AfterProcess
    /\ Pushed
    /\ obs.rejected # <<>>
    /\ RLt(candidate.currentStep, obs.rejected[1][1])
    /\ RLt(Zero, candidate.current.energy)
    /\ ~REq(candidate.current.energy, obs.entry.current.energy)

\* C23: the retry loop of process terminates, for every configuration the
\* setters accept and every sequence of error ratios: a call that is in the
\* loop leaves it.
C23_RetryLoopTerminates == (loc.pc = "trial") ~> (loc.pc = "accept")

\* p lies on the segment from a to b
OnSegment(p, a, b) ==
    /\ VCross(VSub(p, a), VSub(b, a)) = VZero
    /\ RLe(Zero, VDot(VSub(p, a), VSub(b, a)))
    /\ RLe(VDot(VSub(p, a), VSub(b, a)), VR2(VSub(b, a)))

\* the turn of the loop that has drawn the free path d was an interaction
Interacted(step, d) == ~RLt(step, d)

\* C24: each interaction of ElasticScattering.process appends exactly one
\* secondary, a photon (id 22) of weight 1 at a position on the segment from
\* the previous to the current position, and changes nothing else of the
\* candidate; a turn of the loop without interaction changes nothing.
C24_InteractionAppendsOnePhoton ==
    [][(es.pc = "loop" /\ es'.draws # es.draws) =>
          IF Interacted(es.step, es'.draws[Len(es'.draws)])
          THEN /\ Len(candidate'.secondaries) = Len(candidate.secondaries) + 1
               /\ candidate' = [candidate EXCEPT !.secondaries = candidate'.secondaries]
               /\ SubSeq(candidate'.secondaries, 1, Len(candidate.secondaries))
                      = candidate.secondaries
               /\ LET photon == candidate'.secondaries[Len(candidate'.secondaries)]
                  IN  /\ photon.id = 22
                      /\ photon.weight = One
                      /\ OnSegment(photon.position, candidate.previous.position,
                                   candidate.current.position)
          ELSE candidate' = candidate]_vars

\* two interactions in one call have added two photons between two different
\* end points
C24_TwoPhotonsOnTheStep ==
    /\ AfterScatter
    /\ ScatterAdded = 2
    /\ candidate.previous.position # candidate.current.position
    /\ \A k \in 1..2 :
           /\ candidate.secondaries[k].position # candidate.previous.position
           /\ candidate.secondaries[k].position # candidate.current.position

\* C25: the relativistic mass the integrator uses in its push, energy / c^2,
\* equals getLorentzFactor() times the rest mass of the particle it pushes.
C25_PushMassIsLorentzMass ==
    (loc.pc \in {"trial", "accept"}) =>
        REq(loc.m, RMul(getLorentzFactor(obs.entry.current), obs.entry.current.pmass))

\* C26: after any sequence of fillMap, merge and load calls a drawDirection
\* call samples from a cdf that is the running sum of the map's pdf.
C26_DrawnCdfIsRunningSum ==
    (maps.last = "drawDirection") =>
        \A i \in DOMAIN maps.cpm.pdf : maps.cpm.cdf[i] = RunningSum(maps.cpm.pdf, i)

\* C27: a candidate that has passed the range checks of EMCascade.process
\* has indices 0 <= iE < nE and 0 <= iD < nD, and with them a histogram index
\* iD * nE + iE inside the vectors.
C27_IndicesInsideHistogram ==
    \A k \in Workers :
        (em.w[k].pc \in {"critical", "read", "write"}) =>
            /\ 0 <= em.w[k].iE /\ em.w[k].iE < nE
            /\ 0 <= em.w[k].iD /\ em.w[k].iD < em.mod.nD
            /\ InHist(em, em.w[k].i)

\* C29: EMCascade.process deactivates a candidate only if it also counts it:
\* when the call has returned, a photon, electron or positron that was
\* deactivated has been added to a histogram bin, and a candidate of any
\* other id is active and not counted.
C29_DeactivatedOnlyIfCounted ==
    \A k \in Workers :
        (em.w[k].pc = "idle" /\ em.w[k].id # 0) =>
            /\ ~em.w[k].active => em.w[k].counted
            /\ em.w[k].id \notin {22, 11, -11} => em.w[k].active /\ ~em.w[k].counted

\* C30: MonopoleRadiation.process never increases the energy: for a
\* magnetically charged candidate the new energy is max(0, E - dE) with
\* dE >= 0, and a candidate without magnetic charge is left as it was.
C30_RadiationLossNonNegative ==
    AfterRadiation =>
        IF REq(mr.entry.current.mcharge, Zero)
        THEN candidate = mr.entry
        ELSE /\ RLe(Zero, mr.dE)
             /\ candidate.current.energy =
                    StdMax(Zero, RSub(mr.entry.current.energy, mr.dE))
             /\ RLe(candidate.current.energy, mr.entry.current.energy)

\* C28: for every unit direction binFromDirection returns iPhi < nPhi and
\* iTheta < nTheta, so the bin that fillMap writes and checkDirection reads
\* is an element of the pdf vector.
C28_BinInsidePdf ==
    (maps.last \in {"fillMap", "checkDirection"}) =>
        /\ maps.iPhi < maps.cpm.nPhi
        /\ maps.iTheta < maps.cpm.nTheta
        /\ InPdf(maps.cpm, maps.bin)

====
